---------------------------- MODULE Spec2Model ----------------------------
(***************************************************************************)
(* A model of the lowering engine in src/src/compiler.ts (class Compiler). *)
(* Each group of variables belongs to one part of the compiler; each       *)
(* specification below exercises one part and holds the others idle.       *)
(***************************************************************************)
EXTENDS Integers, Sequences, FiniteSets, TLC

VARIABLES
  \* ---- statement lowering and flow analysis (compileFunction) ----
  fnBody,        \* declaration.body of the function instance being compiled
  fnReturnsVoid, \* instance.signature.returnType == Type.void
  fnPc,          \* "idle" | "ready" | "compiled" | "statement"
  fnBefore,      \* currentFunction.flow before the statement is compiled
  fnFlow,        \* currentFunction.flow (stack of frames) after compileStatement(body)
  fnDiag         \* TRUE iff A_function_whose_declared_type_is_not_void_must_return_a_value was emitted

flowVars == <<fnBody, fnReturnsVoid, fnPc, fnBefore, fnFlow, fnDiag>>

VARIABLES
  \* ---- driver: compile() and compileSource ----
  sources,            \* program.sources: source name -> its top-level statements
  noTreeShaking,      \* options.noTreeShaking
  files,              \* this.files: the sources already entered
  srcStack,           \* the active compileSource calls: <<source, index of next statement>>
  startFunctionBody,  \* this.startFunctionBody
  compiledElements,   \* names of the globals and functions carrying ElementFlags.COMPILED
  moduleElements,     \* the globals and functions added to the module, in order
  entered,            \* the sources whose statements compileSource began to process, in order
  pendingExports      \* the export statements whose source has been visited and whose
                      \* members are still to be compiled: <<source, index>>

driverVars == <<sources, noTreeShaking, files, srcStack, startFunctionBody, compiledElements,
                moduleElements, entered, pendingExports>>

VARIABLES
  \* ---- calls, trampolines and function compilation ----
  instances,     \* the function instances: name -> [signature, flags, hasBody, body, trampoline]
  moduleFuncs,   \* the functions and function imports added to the module, in order
  calls,         \* the call expressions emitted by the latest operation (nested ones included)
  errors,        \* number of error diagnostics reported
  lastResult,    \* the latest operation, if a compileCallDirect / compileCallIndirect:
                 \* its site and its result
  run            \* the latest operation, if the execution of a trampoline: its
                 \* argument N, its trace and its status

callVars == <<instances, moduleFuncs, calls, errors, lastResult, run>>

VARIABLES
  \* ---- static memory ----
  options,         \* the Options read here: [target, noMemory, memoryBase]
  memoryOffset,    \* this.memoryOffset, an I64
  memorySegments,  \* this.memorySegments: sequence of [buffer, offset]
  stringSegments,  \* this.stringSegments: key -> segment
  segmentAlignments, \* the alignment each segment was requested with
  stringResults,   \* the calls of compileStaticString so far: [value, offset returned]
  memPc,           \* "idle" | "compiling" | "compiled" | "aborted" (an assertion failed)
  heapBase,        \* the HEAP_BASE global added by compile(), None before
  memory           \* the arguments of module.setMemory: [initial, maximum], None before

memVars == <<options, memoryOffset, memorySegments, segmentAlignments, stringSegments, stringResults,
             memPc, heapBase, memory>>

VARIABLES
  \* ---- function table ----
  functionTable,       \* this.functionTable: sequence of function names
  functionTableIndex,  \* func.functionTableIndex of every function
  tableCompiled,       \* the functions carrying ElementFlags.COMPILED
  tableRequests,       \* the ensureFunctionTableEntry calls so far: [func, index returned]
  tablePc              \* "idle" | "compiling" | "aborted" (an assertion failed)

tableVars == <<functionTable, functionTableIndex, tableCompiled, tableRequests, tablePc>>

VARIABLES
  \* ---- globals: compileGlobal and the reads of a global ----
  global,          \* the Global element: its declaration, flags, type and cached value
  moduleGlobals,   \* the globals and global imports added to the module, in order
  globalStart,     \* the set-globals compileGlobal pushed to startFunctionBody
  globalWarnings,  \* number of warnings compileGlobal reported
  globalResult,    \* what the latest compileGlobal returned: <<TRUE>> or <<FALSE>>, <<>> if none
  lastRead,        \* the latest read of the global: [site, value], value being the
                   \* expression the read was lowered to
  globalPc         \* "idle" | "compiling" | "aborted" (an assertion failed)

globalVars == <<global, moduleGlobals, globalStart, globalWarnings, globalResult,
                lastRead, globalPc>>

VARIABLES
  \* ---- enums: compileEnum and the start function's effect on the members ----
  enumDecl,      \* the Enum element: [isConstant, isTopLevelExport, members], members
                 \* the value declarations in order
  enumValues,    \* the EnumValue elements: [flags, constantValue] per member
  enumModule,    \* the globals added to the module, in order
  enumStart,     \* the set-globals compileEnum pushed to startFunctionBody
  enumWarnings,  \* number of warnings reported
  enumGlobals,   \* the values of the members' globals at run time
  enumPc         \* "idle" | "declared" | "compiled" | "started"

enumVars == <<enumDecl, enumValues, enumModule, enumStart, enumWarnings, enumGlobals, enumPc>>

VARIABLES
  \* ---- small integers: the stores of compound assignments and ++/-- ----
  localType,   \* the type of the local variable assigned to
  localValue,  \* the i32 the local's slot holds at run time
  lastStore,   \* the latest store: its operation, its context, the flag passed
               \* down and the value before
  stores       \* number of stores so far

smallVars == <<localType, localValue, lastStore, stores>>

VARIABLES
  \* ---- integer literals: compileLiteralExpression ----
  literal,      \* the literal compiled: [value, implicitNegate, contextualType], the
                \* value an I64
  literalExpr   \* what compileLiteralExpression returned: [op, value, currentType],
                \* NoLiteralExpr before

literalVars == <<literal, literalExpr>>

VARIABLES
  \* ---- tree shaking: which declarations compileSource compiles ----
  travNoTreeShaking,  \* options.noTreeShaking
  travSource,         \* the source whose statements compileSource is processing
  travFiles,          \* this.files
  travVisited,        \* the top-level declarations processed so far: <<source, declaration>>
  travCompiled        \* the declarations handed to compile<Kind>Declaration:
                      \* [source, path, declaration], path the enclosing namespaces

travVars == <<travNoTreeShaking, travSource, travFiles, travVisited, travCompiled>>

VARIABLES
  \* ---- integer conversions: convertExpression ----
  conversion,  \* the conversion compiled: [fromType, toType, value], value the I64
               \* the converted expression evaluates to
  converted    \* the value of the expression convertExpression returned, an I64
               \* (of an i32 unless the target is long), and currentType

convVars == <<conversion, converted>>

VARIABLES
  \* ---- assignments to fields and properties: compileAssignmentWithValue ----
  assignPc,     \* "idle" | "fresh" | "compiled" | "ran"
  assignFn,     \* currentFunction: the native types of its locals and its free temps
  assignment,   \* the assignment compiled: [element, target, index, value, type, tee]
  assignExpr,   \* the expression compileAssignment returned
  assignValue,  \* the expression the value was lowered to
  assignTemp,   \* the index of the temp compileAssignmentWithValue took, -1 if none
  assignLocals, \* the values of the function's locals before the expression runs
  assignRun     \* the execution of assignExpr: [locals, stores, calls, value]

assignVars == <<assignPc, assignFn, assignment, assignExpr, assignValue, assignTemp,
                assignLocals, assignRun>>

VARIABLES
  \* ---- logical && and ||: compileBinaryExpression ----
  logicPc,      \* "idle" | "fresh" | "compiled" | "ran"
  logicFn,      \* currentFunction: the native types of its locals and its free temps
  logical,      \* the expression compiled: [operator, left, right, type]
  logicLeft,    \* the expression the left operand was lowered to
  logicRight,   \* the expression the right operand was lowered to
  logicExpr,    \* the expression compileBinaryExpression returned
  logicTemp,    \* the index of the temp that holds left, -1 if left was cloned
  logicLocals,  \* the values of the function's locals before the expression runs
  logicRun      \* the execution of logicExpr: [locals, stores, calls, value]

logicVars == <<logicPc, logicFn, logical, logicLeft, logicRight, logicExpr, logicTemp,
               logicLocals, logicRun>>

VARIABLES
  \* ---- the enum being compiled: compileEnum and currentEnum ----
  ctxPc,        \* "idle" | "compiling"
  enumProgram,  \* per enum, the initializers of its values: "none" or the enum read
  currentEnum,  \* Compiler.currentEnum (None: null)
  ctxCompiled,  \* the enums that have the flag COMPILED
  ctxVisited,   \* the enum declarations compileEnumDeclaration was called for
  ctxValues,    \* per value compiled: [enum, index, currentEnum when it was compiled]
  ctxCalls      \* per call of compileEnum that returned: [enum, before, after]

ctxVars == <<ctxPc, enumProgram, currentEnum, ctxCompiled, ctxVisited, ctxValues, ctxCalls>>

VARIABLES
  \* ---- inlined constants: compileInlineConstant ----
  inlinePc,      \* "idle" | "declared" | "cached" | "read"
  inlineElement, \* the constant: [type, value (of its initializer), constantIntegerValue]
  inlineRead,    \* the read: [contextualType, retainType]
  inlineResult   \* what compileInlineConstant returned: [op, value, currentType]

inlineVars == <<inlinePc, inlineElement, inlineRead, inlineResult>>

VARIABLES
  \* ---- the start function: initializers performed in start ----
  startPc,          \* "idle" | "sources" | "done"
  startProgram,     \* [constant, initializer (of the global g), values (of the enum E),
                    \*  references (of the body of the function f)]
  startTodo,        \* the top-level statements of the source still to compile
  startCompiler,    \* [functions, currentFunction, compiled, body, globals, warnings]
  startLocals       \* the number of locals the start function is added with

startVars == <<startPc, startProgram, startTodo, startCompiler, startLocals>>

VARIABLES
  \* ---- local variable statements: compileVariableStatement ----
  varPc,         \* "idle" | "parsed" | "compiled"
  varStatement,  \* [kind ("const" | "let" | "var"), declarations], a declaration being
                 \* [name, type, initializer]
  varFunction,   \* the current function: [locals (names by index), scopedLocals (set of
                 \* <<name, index>>)]
  varResult      \* [expr, errors, warnings]: the expression returned, 0 being nop

varVars == <<varPc, varStatement, varFunction, varResult>>

VARIABLES
  \* ---- division and remainder of small integers ----
  divPc,          \* "idle" | "parsed" | "compiled"
  divType,        \* the type of the locals a, b and c
  divLocals,      \* [a, b, c]: the values of the locals before the expression
  divAfter,       \* the values of the locals after the lowered expression ran
  divExpression,  \* [operator, left, right]: the operands are "local" or "sum"
  divResult       \* [trap, value]: what the lowered expression evaluates to

divVars == <<divPc, divType, divLocals, divAfter, divExpression, divResult>>

vars == <<flowVars, driverVars, callVars, memVars, tableVars, globalVars, enumVars, smallVars, literalVars, travVars, convVars, assignVars, logicVars, ctxVars, inlineVars, startVars, varVars, divVars>>

nonFlowVars == <<enumVars, driverVars, callVars, memVars, tableVars, globalVars, smallVars, literalVars, travVars, convVars, assignVars, logicVars, ctxVars, inlineVars, startVars, varVars, divVars>>

nonDriverVars == <<enumVars, flowVars, callVars, memVars, tableVars, globalVars, smallVars, literalVars, travVars, convVars, assignVars, logicVars, ctxVars, inlineVars, startVars, varVars, divVars>>

nonCallVars == <<enumVars, flowVars, driverVars, memVars, tableVars, globalVars, smallVars, literalVars, travVars, convVars, assignVars, logicVars, ctxVars, inlineVars, startVars, varVars, divVars>>

nonMemVars == <<enumVars, flowVars, driverVars, callVars, tableVars, globalVars, smallVars, literalVars, travVars, convVars, assignVars, logicVars, ctxVars, inlineVars, startVars, varVars, divVars>>

nonTableVars == <<enumVars, flowVars, driverVars, callVars, memVars, globalVars, smallVars, literalVars, travVars, convVars, assignVars, logicVars, ctxVars, inlineVars, startVars, varVars, divVars>>

nonGlobalVars == <<flowVars, driverVars, callVars, memVars, tableVars, enumVars, smallVars, literalVars, travVars, convVars, assignVars, logicVars, ctxVars, inlineVars, startVars, varVars, divVars>>

nonEnumVars == <<flowVars, driverVars, callVars, memVars, tableVars, globalVars, smallVars, literalVars, travVars, convVars, assignVars, logicVars, ctxVars, inlineVars, startVars, varVars, divVars>>

nonSmallVars == <<flowVars, driverVars, callVars, memVars, tableVars, globalVars, enumVars, literalVars, travVars, convVars, assignVars, logicVars, ctxVars, inlineVars, startVars, varVars, divVars>>

nonLiteralVars == <<flowVars, driverVars, callVars, memVars, tableVars, globalVars, enumVars, smallVars, travVars, convVars, assignVars, logicVars, ctxVars, inlineVars, startVars, varVars, divVars>>

nonTravVars == <<flowVars, driverVars, callVars, memVars, tableVars, globalVars, enumVars, smallVars, literalVars, convVars, assignVars, logicVars, ctxVars, inlineVars, startVars, varVars, divVars>>

nonConvVars == <<flowVars, driverVars, callVars, memVars, tableVars, globalVars, enumVars, smallVars, literalVars, travVars, assignVars, logicVars, ctxVars, inlineVars, startVars, varVars, divVars>>

nonAssignVars == <<flowVars, driverVars, callVars, memVars, tableVars, globalVars, enumVars, smallVars, literalVars, travVars, convVars, logicVars, ctxVars, inlineVars, startVars, varVars, divVars>>

nonLogicVars == <<flowVars, driverVars, callVars, memVars, tableVars, globalVars, enumVars, smallVars, literalVars, travVars, convVars, assignVars, ctxVars, inlineVars, startVars, varVars, divVars>>

nonCtxVars == <<flowVars, driverVars, callVars, memVars, tableVars, globalVars, enumVars, smallVars, literalVars, travVars, convVars, assignVars, logicVars, inlineVars, startVars, varVars, divVars>>

nonInlineVars == <<flowVars, driverVars, callVars, memVars, tableVars, globalVars, enumVars, smallVars, literalVars, travVars, convVars, assignVars, logicVars, ctxVars, startVars, varVars, divVars>>

nonStartVars == <<flowVars, driverVars, callVars, memVars, tableVars, globalVars, enumVars, smallVars, literalVars, travVars, convVars, assignVars, logicVars, ctxVars, inlineVars, varVars, divVars>>

nonVarVars == <<flowVars, driverVars, callVars, memVars, tableVars, globalVars, enumVars, smallVars, literalVars, travVars, convVars, assignVars, logicVars, ctxVars, inlineVars, startVars, divVars>>

nonDivVars == <<flowVars, driverVars, callVars, memVars, tableVars, globalVars, enumVars, smallVars, literalVars, travVars, convVars, assignVars, logicVars, ctxVars, inlineVars, startVars, varVars>>

None == "none"

(***************************************************************************)
(* Statements.  A statement is a record [k, s, d]: k its NodeKind, s the   *)
(* sequence of its child statements, d a number (the index of the default  *)
(* case of a switch, 0 if there is none; 1 for a `for` that has a          *)
(* condition, 0 if it is omitted).                                         *)
(***************************************************************************)
MaxNodes == 4

Node(k, s, d) == [k |-> k, s |-> s, d |-> d]

AtomKinds == {"expression", "return", "throw", "break", "continue"}

\* with the labelled break and continue, and the variable statement whose
\* type resolves or not
Atoms ==
  {Node(k, <<>>, 0) : k \in AtomKinds} \cup {Node("block", <<>>, 0)} \cup
  {Node("break", <<>>, 1), Node("continue", <<>>, 1)} \cup
  {Node("variable", <<>>, d) : d \in {0, 1}}

\* if without else, while, do, for (with and without condition), block of one
\* statement, switch of one case (a labelled case, or the default one)
Unary(t) ==
  { Node("if", <<t>>, 0), Node("while", <<t>>, 0), Node("do", <<t>>, 0),
    Node("for", <<t>>, 1), Node("for", <<t>>, 0), Node("block", <<t>>, 0),
    Node("switch", <<Node("case", <<t>>, 0)>>, 0),
    Node("switch", <<Node("case", <<t>>, 0)>>, 1) }

\* if with else, block of two statements, switch of two cases (default: none,
\* the first or the second)
Binary(a, b) ==
  { Node("if", <<a, b>>, 0), Node("block", <<a, b>>, 0) } \cup
  { Node("switch", <<Node("case", <<a>>, 0), Node("case", <<b>>, 0)>>, d) : d \in 0..2 }

RECURSIVE Stmts(_)
Stmts(n) ==
  IF n = 1 THEN Atoms
  ELSE UNION { Unary(t) : t \in Stmts(n - 1) } \cup
       UNION { UNION { Binary(a, b) : a \in Stmts(i), b \in Stmts(n - 1 - i) } : i \in 1..(n - 2) }

StmtsUpTo(n) == UNION { Stmts(i) : i \in 1..n }

\* a function body is a block statement
Bodies(n) == { Node("block", <<t>>, 0) : t \in StmtsUpTo(n) }


\* IR expressions: a record [op, label, names, kids, n]
IR(op, label, names, kids, n) ==
  [op |-> op, label |-> label, names |-> names, kids |-> kids, n |-> n]

createUnreachable == IR("unreachable", None, <<>>, <<>>, 0)

createNop == IR("nop", None, <<>>, <<>>, 0)

createBlock(label, children) == IR("block", label, <<>>, children, 0)

\* br_table over the i32 held by local `condition`
createSwitch(names, defaultName, condition) == IR("switch", defaultName, names, <<>>, condition)

createGetLocal(index) == IR("get_local", None, <<>>, <<>>, index)

createSetLocal(index, value) == IR("set_local", None, <<>>, <<value>>, index)

createCall(target, operands) == IR("call", target, <<>>, operands, 0)

createCallImport(target, operands) == IR("call_import", target, <<>>, operands, 0)

createCallIndirect(operands) == IR("call_indirect", None, <<>>, operands, 0)

createI32(value) == IR("i32.const", None, <<>>, <<>>, value)

createIf(condition, ifTrue, ifFalse) == IR("if", None, <<>>, <<condition, ifTrue, ifFalse>>, 0)

\* module.createBreak(label) and module.createBreak(label, condition)
createBreak(label) == IR("br", label, <<>>, <<>>, 0)

createBreakIf(label, condition) == IR("br", label, <<>>, <<condition>>, 0)

createLoop(label, body) == IR("loop", label, <<>>, <<body>>, 0)

createReturn == IR("return", None, <<>>, <<>>, 0)

createDrop(expr) == IR("drop", None, <<>>, <<expr>>, 0)

(***************************************************************************)
(* Flow: the per-function stack of frames.  A frame holds its flags and    *)
(* the break and continue labels in force.  The top frame is the last      *)
(* element of the sequence; the compile state st carries the stack, the    *)
(* function's break-context counter and the number of errors reported.     *)
(***************************************************************************)
NoLabel == <<>>

BreakLabel(ctx) == <<"break", ctx>>

ContinueLabel(ctx) == <<"continue", ctx>>

\* "case" + i + "|" + context, i counted from 0
CaseLabel(i, ctx) == <<"case", ctx, i>>

FlowCreate ==
  [ flow |-> << [flags |-> {}, breakLabel |-> NoLabel, continueLabel |-> NoLabel] >>,
    nextBreakId |-> 0, breakStack |-> <<>>, errors |-> 0, expr |-> createNop ]

FlowTop(st) == st.flow[Len(st.flow)]

FlowIs(st, flag) == flag \in FlowTop(st).flags

FlowSet(st, flag) == [st EXCEPT !.flow[Len(st.flow)].flags = @ \cup {flag}]

SetBreakLabel(st, l) == [st EXCEPT !.flow[Len(st.flow)].breakLabel = l]

SetContinueLabel(st, l) == [st EXCEPT !.flow[Len(st.flow)].continueLabel = l]

\* a branch that inherits nothing from its parent
enterBranchWithoutLabels(st) ==
  [st EXCEPT !.flow = Append(@, [ flags |-> {}, breakLabel |-> NoLabel,
                                  continueLabel |-> NoLabel ])]

enterBranchOrScope(st) ==
  [st EXCEPT !.flow = Append(@, [ flags |-> {},
                                  breakLabel |-> FlowTop(st).breakLabel,
                                  continueLabel |-> FlowTop(st).continueLabel ])]

leaveBranchOrScope(st) == [st EXCEPT !.flow = SubSeq(@, 1, Len(@) - 1)]

\* returns the new context id in nextBreakId - 1
enterBreakContext(st) ==
  [st EXCEPT !.nextBreakId = @ + 1, !.breakStack = Append(@, st.nextBreakId)]

\* a break context that is never left
keepBreakContext(st) == st

leaveBreakContext(st) == [st EXCEPT !.breakStack = SubSeq(@, 1, Len(@) - 1)]

finalize(st) == FlowIs(st, "RETURNS")

\* this.error(...)
Report(st) == [st EXCEPT !.errors = @ + 1]

\* the compile state with the expression the statement compiler returns
Returning(st, expr) == [st EXCEPT !.expr = expr]

\* the expression a condition, a case label or an expression statement is
\* lowered to
ConditionExpr == createI32(1)

(***************************************************************************)
(* compileStatement and the statement compilers: what they do to the flow  *)
(* and the expression they return (in the field expr of the compile        *)
(* state).  Conditions, initializers and incrementors are expressions and  *)
(* leave the flow alone.  A break or continue with d = 1 has a label; a     *)
(* variable statement with d = 1 declares a local whose type does not       *)
(* resolve.                                                                *)
(***************************************************************************)
RECURSIVE compileStatement(_, _), compileStatements(_, _), compileCases(_, _, _, _, _, _)

\* the field expr holds the array of the statements' expressions
compileStatements(statements, st) ==
  IF statements = <<>> THEN Returning(st, <<>>)
  ELSE LET s1 == compileStatement(Head(statements), st)
           s2 == compileStatements(Tail(statements), s1)
       IN  Returning(s2, <<s1.expr>> \o s2.expr)

compileBlockStatement(statement, st) ==
  LET s1 == enterBranchOrScope(st)
      s2 == compileStatements(statement.s, s1)
      stmt == createBlock(NoLabel, s2.expr)
      stmtReturns == FlowIs(s2, "RETURNS")
      s3 == leaveBranchOrScope(s2)
  IN  Returning(IF stmtReturns THEN FlowSet(s3, "RETURNS") ELSE s3, stmt)

compileBreakStatement(statement, st) ==
  IF statement.d = 1 THEN Returning(Report(st), createUnreachable)
  ELSE IF FlowTop(st).breakLabel = NoLabel
    THEN Returning(Report(st), createUnreachable)
    ELSE Returning(FlowSet(st, "POSSIBLY_BREAKS"), createBreak(FlowTop(st).breakLabel))

compileContinueStatement(statement, st) ==
  IF statement.d = 1 THEN Returning(Report(st), createUnreachable)
  ELSE IF FlowTop(st).continueLabel = NoLabel
    THEN Returning(Report(st), createUnreachable)
    ELSE Returning(FlowSet(st, "POSSIBLY_CONTINUES"),
                   createBreak(FlowTop(st).continueLabel))

compileDoStatement(statement, st) ==
  LET label == st.nextBreakId
      s1 == enterBreakContext(st)
      previousBreakLabel == FlowTop(s1).breakLabel
      previousContinueLabel == FlowTop(s1).continueLabel
      breakLabel == BreakLabel(label)
      continueLabel == ContinueLabel(label)
      s2 == SetContinueLabel(SetBreakLabel(s1, breakLabel), continueLabel)
      s3 == compileStatement(statement.s[1], s2)
      body == s3.expr
      s4 == SetContinueLabel(SetBreakLabel(s3, previousBreakLabel), previousContinueLabel)
  IN  Returning(leaveBreakContext(s4),
        createBlock(breakLabel, <<
          createLoop(continueLabel,
            createBlock(NoLabel, << body, createBreakIf(continueLabel, ConditionExpr) >>)) >>))

compileExpressionStatement(statement, st) == Returning(st, createDrop(ConditionExpr))

compileForStatement(statement, st) ==
  LET context == st.nextBreakId
      s1 == enterBranchOrScope(enterBreakContext(st))
      breakLabel == BreakLabel(context)
      continueLabel == ContinueLabel(context)
      s2 == SetContinueLabel(SetBreakLabel(s1, breakLabel), continueLabel)
      s3 == compileStatement(statement.s[1], s2)
      body == s3.expr
      alwaysReturns == statement.d = 0 /\ FlowIs(s3, "RETURNS")
      s4 == leaveBreakContext(leaveBranchOrScope(s3))
      expr == createBlock(breakLabel, <<
                createNop,
                createLoop(continueLabel, createBlock(NoLabel, <<
                  createIf(ConditionExpr,
                           createBlock(NoLabel, << body, createNop, createBreak(continueLabel) >>),
                           createNop) >>)) >>)
  IN  IF alwaysReturns
      THEN Returning(FlowSet(s4, "RETURNS"), createBlock(NoLabel, << expr, createUnreachable >>))
      ELSE Returning(s4, expr)

compileIfStatement(statement, st) ==
  LET s1 == compileStatement(statement.s[1], enterBranchOrScope(st))
      ifTrue == s1.expr
      ifTrueReturns == FlowIs(s1, "RETURNS")
      s2 == leaveBranchOrScope(s1)
      hasElse == Len(statement.s) = 2
      s3 == IF hasElse THEN compileStatement(statement.s[2], enterBranchOrScope(s2)) ELSE s2
      ifFalse == IF hasElse THEN s3.expr ELSE createNop
      ifFalseReturns == hasElse /\ FlowIs(s3, "RETURNS")
      s4 == IF hasElse THEN leaveBranchOrScope(s3) ELSE s2
  IN  Returning(IF ifTrueReturns /\ ifFalseReturns THEN FlowSet(s4, "RETURNS") ELSE s4,
                createIf(ConditionExpr, ifTrue, ifFalse))

compileReturnStatement(statement, st) == Returning(FlowSet(st, "RETURNS"), createReturn)

\* the loop that nests the blocks of the cases of a switch, from case i on
\* (i counted from 1); the result carries alwaysReturns beside the compile
\* state, whose field expr holds currentBlock
compileCases(cases, i, context, alwaysReturns, currentBlock, st) ==
  IF i > Len(cases)
  THEN [st |-> Returning(st, currentBlock), alwaysReturns |-> alwaysReturns]
  ELSE LET breakLabel == BreakLabel(context)
           s1 == SetBreakLabel(enterBranchOrScope(st), breakLabel)
           fallsThrough == i # Len(cases)
           nextLabel == IF ~fallsThrough THEN breakLabel ELSE CaseLabel(i, context)
           s2 == compileStatements(cases[i].s, s1)
           body == <<currentBlock>> \o s2.expr
           ar == IF ~(fallsThrough \/ FlowIs(s2, "RETURNS")) THEN FALSE ELSE alwaysReturns
       IN  compileCases(cases, i + 1, context, ar, createBlock(nextLabel, body),
                        leaveBranchOrScope(s2))

\* the br_if of every labelled case, then the br to the default case or out
\* of the switch
SwitchBreaks(statement, context) ==
  LET defaultIndex == statement.d - 1
      labelled == SelectSeq([i \in 1..Len(statement.s) |-> i - 1],
                            LAMBDA i : i # defaultIndex)
  IN  << createSetLocal(0, ConditionExpr) >>
        \o [n \in 1..Len(labelled) |-> createBreakIf(CaseLabel(labelled[n], context),
                                                     ConditionExpr)]
        \o << createBreak(IF defaultIndex >= 0 THEN CaseLabel(defaultIndex, context)
                                               ELSE BreakLabel(context)) >>

compileSwitchStatement(statement, st) ==
  LET context == st.nextBreakId
      s1 == enterBreakContext(st)
      defaultIndex == statement.d - 1
      breaks == SwitchBreaks(statement, context)
      r == compileCases(statement.s, 1, context, TRUE,
                        createBlock(CaseLabel(0, context), breaks), s1)
      s2 == leaveBreakContext(r.st)
  IN  IF defaultIndex >= 0 /\ r.alwaysReturns THEN FlowSet(s2, "RETURNS") ELSE s2

compileThrowStatement(statement, st) ==
  Returning(FlowSet(FlowSet(st, "POSSIBLY_THROWS"), "RETURNS"), createUnreachable)

\* compileVariableStatement of one local declaration with a type annotation
\* and an initializer
compileLocalVariableStatement(statement, st) ==
  IF statement.d = 1 THEN Returning(Report(st), createNop)
  ELSE Returning(st, createSetLocal(1, ConditionExpr))

compileWhileStatement(statement, st) ==
  LET label == st.nextBreakId
      s1 == enterBranchOrScope(enterBreakContext(st))
      breakLabel == BreakLabel(label)
      continueLabel == ContinueLabel(label)
      s2 == SetContinueLabel(SetBreakLabel(s1, breakLabel), continueLabel)
      s3 == compileStatement(statement.s[1], s2)
      body == s3.expr
  IN  Returning(leaveBreakContext(leaveBranchOrScope(s3)),
        createBlock(breakLabel, <<
          createLoop(continueLabel,
            createIf(ConditionExpr,
                     createBlock(NoLabel, << body, createBreak(continueLabel) >>),
                     createNop)) >>))

compileStatement(statement, st) ==
  CASE statement.k = "block" -> compileBlockStatement(statement, st)
    [] statement.k = "break" -> compileBreakStatement(statement, st)
    [] statement.k = "continue" -> compileContinueStatement(statement, st)
    [] statement.k = "do" -> compileDoStatement(statement, st)
    [] statement.k = "expression" -> compileExpressionStatement(statement, st)
    [] statement.k = "for" -> compileForStatement(statement, st)
    [] statement.k = "if" -> compileIfStatement(statement, st)
    [] statement.k = "return" -> compileReturnStatement(statement, st)
    [] statement.k = "switch" -> compileSwitchStatement(statement, st)
    [] statement.k = "throw" -> compileThrowStatement(statement, st)
    [] statement.k = "variable" -> compileLocalVariableStatement(statement, st)
    [] statement.k = "while" -> compileWhileStatement(statement, st)

(***************************************************************************)
(* The execution paths of a statement: the set of ways in which it can     *)
(* complete when every condition may take either value.  "normal": control *)
(* reaches the end of the statement; "break"/"continue": a branch to the   *)
(* enclosing loop or switch; "exit": a return, a throw, or the unreachable *)
(* that an unenclosed break or continue lowers to.                         *)
(***************************************************************************)
RECURSIVE Outcomes(_, _, _), SeqOutcomes(_, _, _), CaseOutcomes(_, _, _)

Then(o1, o2) == (o1 \ {"normal"}) \cup (IF "normal" \in o1 THEN o2 ELSE {})

SeqOutcomes(statements, inLoop, inBreak) ==
  IF statements = <<>> THEN {"normal"}
  ELSE Then(Outcomes(Head(statements), inLoop, inBreak),
            SeqOutcomes(Tail(statements), inLoop, inBreak))

\* entering the switch at case i and falling through the cases that follow
CaseOutcomes(cases, i, inLoop) ==
  IF i > Len(cases) THEN {"normal"}
  ELSE Then(SeqOutcomes(cases[i].s, inLoop, TRUE), CaseOutcomes(cases, i + 1, inLoop))

Outcomes(statement, inLoop, inBreak) ==
  CASE statement.k \in {"expression", "variable"} -> {"normal"}
    [] statement.k \in {"return", "throw"} -> {"exit"}
    [] statement.k = "break" -> IF inBreak /\ statement.d = 0 THEN {"break"} ELSE {"exit"}
    [] statement.k = "continue" -> IF inLoop /\ statement.d = 0 THEN {"continue"} ELSE {"exit"}
    [] statement.k = "block" -> SeqOutcomes(statement.s, inLoop, inBreak)
    [] statement.k = "if" ->
         Outcomes(statement.s[1], inLoop, inBreak) \cup
         (IF Len(statement.s) = 2 THEN Outcomes(statement.s[2], inLoop, inBreak)
                                  ELSE {"normal"})
    [] statement.k = "while" \/ (statement.k = "for" /\ statement.d = 1) ->
         {"normal"} \cup (Outcomes(statement.s[1], TRUE, TRUE) \cap {"exit"})
    [] statement.k = "for" /\ statement.d = 0 ->
         LET b == Outcomes(statement.s[1], TRUE, TRUE)
         IN  (b \cap {"exit"}) \cup (IF "break" \in b THEN {"normal"} ELSE {})
    [] statement.k = "do" ->
         LET b == Outcomes(statement.s[1], TRUE, TRUE)
         IN  (b \cap {"exit"}) \cup
             (IF b \cap {"normal", "break", "continue"} # {} THEN {"normal"} ELSE {})
    [] statement.k = "switch" ->
         LET entries == 1..Len(statement.s)
             o == UNION { CaseOutcomes(statement.s, i, inLoop) : i \in entries } \cup
                  (IF statement.d = 0 THEN {"normal"} ELSE {})
         IN  (o \ {"break"}) \cup (IF "break" \in o THEN {"normal"} ELSE {})

ReachesEnd(body) == "normal" \in Outcomes(body, FALSE, FALSE)

(***************************************************************************)
(* compileFunction, for an instance that has a body.                       *)
(***************************************************************************)
CompileFunctionBody ==
  /\ fnPc = "ready"
  /\ LET st == compileStatement(fnBody, FlowCreate)
         allBranchesReturn == finalize(st)
     IN  /\ fnFlow' = st
         /\ fnDiag' = (~fnReturnsVoid /\ ~allBranchesReturn)
  /\ fnPc' = "compiled"
  /\ UNCHANGED <<fnBody, fnReturnsVoid, fnBefore>>
  /\ UNCHANGED nonFlowVars

\* The flow with which the compiler reaches a statement: that of a function
\* body, of the body of a while loop, of the body of a do loop (whose labels
\* are set on the enclosing frame) and of a switch case inside a while loop.
WhileBodyFlow ==
  SetContinueLabel(SetBreakLabel(enterBranchOrScope(enterBreakContext(FlowCreate)),
                                 BreakLabel(0)), ContinueLabel(0))

DoBodyFlow ==
  SetContinueLabel(SetBreakLabel(enterBreakContext(FlowCreate), BreakLabel(0)),
                   ContinueLabel(0))

SwitchCaseFlow ==
  SetBreakLabel(enterBranchOrScope(enterBreakContext(WhileBodyFlow)), BreakLabel(1))

StatementFlows == {FlowCreate, WhileBodyFlow, DoBodyFlow, SwitchCaseFlow}

\* compileStatement of the statement of the body, reached with one of the
\* flows above
CompileStatement ==
  /\ fnPc = "ready"
  /\ \E before \in StatementFlows :
       /\ fnBefore' = before
       /\ fnFlow' = compileStatement(fnBody.s[1], before)
  /\ fnPc' = "statement"
  /\ UNCHANGED <<fnBody, fnReturnsVoid, fnDiag>>
  /\ UNCHANGED nonFlowVars

(***************************************************************************)
(* Driver.  A top-level statement of a source is a record                  *)
(*   kind     "variable" | "function" | "statement" | "import"             *)
(*   name     the global declared, the function declared, the statement's  *)
(*            identity, or the source imported                             *)
(*   reads    the global that the function body or the statement reads     *)
(*            (None: it reads none)                                        *)
(*   exported the declaration has the export modifier                      *)
(*   inStart  the variable's initializer is not a constant, so that        *)
(*            compileGlobal initializes it in the start function           *)
(***************************************************************************)
MaxItems == 3

Item(kind, name, reads, exported, inStart) ==
  [kind |-> kind, name |-> name, reads |-> reads, exported |-> exported, inStart |-> inStart]

GlobalNames == {"g1", "g2", "g3"}

MainPool ==
  { Item("variable", g, None, FALSE, b) : g \in {"g1", "g2"}, b \in BOOLEAN } \cup
  { Item("function", "f", r, e, FALSE) : r \in {None} \cup GlobalNames, e \in BOOLEAN } \cup
  { Item("statement", n, None, FALSE, FALSE) : n \in {"s1", "s2"} } \cup
  { Item("import", "lib", None, FALSE, FALSE), Item("import", "lib2", None, FALSE, FALSE) } \cup
  { Item("export", "lib", "g3", FALSE, FALSE) }

LibPool ==
  { Item("variable", "g3", None, FALSE, b) : b \in BOOLEAN } \cup
  { Item("statement", "s3", None, FALSE, FALSE), Item("import", "main", None, FALSE, FALSE),
    Item("import", "lib2", None, FALSE, FALSE) }

\* lib2 holds one top-level statement and imports itself
Lib2Source ==
  << Item("statement", "s4", None, FALSE, FALSE), Item("import", "lib2", None, FALSE, FALSE) >>

\* the statement lists of at most n statements over a pool, no declaration and
\* no import twice
SourcesOver(pool, n) ==
  { q \in UNION { [1..m -> pool] : m \in 0..n } :
      \A a, b \in DOMAIN q :
        a # b => (q[a].name # q[b].name \/ q[a].kind # q[b].kind) }

isEntry(src) == src = "main"

AllItems == UNION { { sources[src][i] : i \in DOMAIN sources[src] } : src \in DOMAIN sources }

Declared(g) == \E it \in AllItems : it.kind = "variable" /\ it.name = g

GlobalDeclaration(g) == CHOOSE it \in AllItems : it.kind = "variable" /\ it.name = g

\* compileGlobal on the driver state d = [start, compiled]: a global not yet
\* COMPILED is flagged, and its set-global is appended to the start function
\* body if its initializer is not constant
compileGlobal(d, g) ==
  IF g \in d.compiled THEN d
  ELSE [ compiled |-> d.compiled \cup {g},
         emitted |-> Append(d.emitted, g),
         start |-> IF GlobalDeclaration(g).inStart
                     THEN Append(d.start, <<"init", g>>) ELSE d.start ]

\* compileIdentifierExpression of a name that resolves to a global (or to
\* nothing, when no source declares it)
compileIdentifierExpression(d, g) ==
  IF g # None /\ Declared(g) THEN compileGlobal(d, g) ELSE d

\* compileFunctionDeclaration -> compileFunction of a function whose body
\* reads item.reads
compileFunctionDeclaration(d, item) ==
  IF item.name \in d.compiled THEN d
  ELSE LET d1 == compileIdentifierExpression([d EXCEPT !.compiled = @ \cup {item.name}],
                                            item.reads)
       IN  [d1 EXCEPT !.emitted = Append(@, item.name)]

DriverState ==
  [start |-> startFunctionBody, compiled |-> compiledElements, emitted |-> moduleElements]

\* a variant of the guard that forgets the sources already entered
filesHasNothing(fs, normalizedPath) == FALSE

\* files.has(normalizedPath)
filesHas(fs, normalizedPath) == normalizedPath \in fs

Top == srcStack[Len(srcStack)]

AtStatement(kind) ==
  /\ srcStack # <<>>
  /\ Top[2] <= Len(sources[Top[1]])
  /\ sources[Top[1]][Top[2]].kind = kind

CurrentItem == sources[Top[1]][Top[2]]

Advance == [srcStack EXCEPT ![Len(srcStack)] = <<@[1], @[2] + 1>>]

\* compile(): compileSource of the entry source
CompileEntry ==
  /\ files = {}
  /\ srcStack = <<>>
  /\ files' = {"main"}
  /\ srcStack' = << <<"main", 1>> >>
  /\ entered' = Append(entered, "main")
  /\ UNCHANGED <<sources, noTreeShaking, startFunctionBody, compiledElements,
                 moduleElements, pendingExports>>
  /\ UNCHANGED nonDriverVars

\* case NodeKind.VARIABLE: compileVariableStatement -> compileGlobalDeclaration
CompileVariable ==
  /\ AtStatement("variable")
  /\ LET d == compileGlobal(DriverState, CurrentItem.name)
     IN  /\ startFunctionBody' = d.start
         /\ compiledElements' = d.compiled
         /\ moduleElements' = d.emitted
  /\ srcStack' = Advance
  /\ UNCHANGED <<sources, noTreeShaking, files, entered, pendingExports>>
  /\ UNCHANGED nonDriverVars

\* case NodeKind.FUNCTIONDECLARATION
CompileFunctionDeclaration ==
  /\ AtStatement("function")
  /\ LET d == IF noTreeShaking \/ (isEntry(Top[1]) /\ CurrentItem.exported)
                THEN compileFunctionDeclaration(DriverState, CurrentItem)
                ELSE DriverState
     IN  /\ startFunctionBody' = d.start
         /\ compiledElements' = d.compiled
         /\ moduleElements' = d.emitted
  /\ srcStack' = Advance
  /\ UNCHANGED <<sources, noTreeShaking, files, entered, pendingExports>>
  /\ UNCHANGED nonDriverVars

\* default: a top-level statement, compiled into the start function's body
CompileTopLevelStatement ==
  /\ AtStatement("statement")
  /\ LET d == compileIdentifierExpression(DriverState, CurrentItem.reads)
     IN  /\ startFunctionBody' = Append(d.start, <<"stmt", CurrentItem.name>>)
         /\ compiledElements' = d.compiled
         /\ moduleElements' = d.emitted
  /\ srcStack' = Advance
  /\ UNCHANGED <<sources, noTreeShaking, files, entered, pendingExports>>
  /\ UNCHANGED nonDriverVars

\* case NodeKind.IMPORT: compileSourceByPath -> compileSource, which returns
\* at once for a source already in files
CompileImport ==
  /\ AtStatement("import")
  /\ LET target == CurrentItem.name
     IN  IF filesHas(files, target)
           THEN /\ srcStack' = Advance
                /\ UNCHANGED <<files, entered>>
           ELSE /\ srcStack' = Append(Advance, <<target, 1>>)
                /\ files' = files \cup {target}
                /\ entered' = Append(entered, target)
  /\ UNCHANGED <<sources, noTreeShaking, startFunctionBody, compiledElements,
                 moduleElements, pendingExports>>
  /\ UNCHANGED nonDriverVars

\* case NodeKind.EXPORT with a path, first half: compileSourceByPath
CompileExportSource ==
  /\ AtStatement("export")
  /\ Top \notin pendingExports
  /\ pendingExports' = pendingExports \cup {Top}
  /\ LET target == CurrentItem.name
     IN  IF filesHas(files, target)
           THEN UNCHANGED <<srcStack, files, entered>>
           ELSE /\ srcStack' = Append(srcStack, <<target, 1>>)
                /\ files' = files \cup {target}
                /\ entered' = Append(entered, target)
  /\ UNCHANGED <<sources, noTreeShaking, startFunctionBody, compiledElements, moduleElements>>
  /\ UNCHANGED nonDriverVars

\* case NodeKind.EXPORT, second half: compileExportStatement of a member that
\* is a global, if noTreeShaking or the source is an entry
CompileExportMembers ==
  /\ AtStatement("export")
  /\ Top \in pendingExports
  /\ pendingExports' = pendingExports \ {Top}
  /\ LET d == IF noTreeShaking \/ isEntry(Top[1])
                THEN compileIdentifierExpression(DriverState, CurrentItem.reads)
                ELSE DriverState
     IN  /\ startFunctionBody' = d.start
         /\ compiledElements' = d.compiled
         /\ moduleElements' = d.emitted
  /\ srcStack' = Advance
  /\ UNCHANGED <<sources, noTreeShaking, files, entered>>
  /\ UNCHANGED nonDriverVars

\* the loop of compileSource ends and the call returns
LeaveSource ==
  /\ srcStack # <<>>
  /\ Top[2] > Len(sources[Top[1]])
  /\ srcStack' = SubSeq(srcStack, 1, Len(srcStack) - 1)
  /\ UNCHANGED <<sources, noTreeShaking, files, startFunctionBody, compiledElements,
                 moduleElements, entered, pendingExports>>
  /\ UNCHANGED nonDriverVars

DriverDone == files # {} /\ srcStack = <<>>

\* what a source contributes to the start function, in the order of its text
RECURSIVE StartEntries(_)
StartEntries(items) ==
  IF items = <<>> THEN <<>>
  ELSE LET it == Head(items)
           e == IF it.kind = "variable" /\ it.inStart THEN << <<"init", it.name>> >>
                ELSE IF it.kind = "statement" THEN << <<"stmt", it.name>> >>
                ELSE <<>>
       IN  e \o StartEntries(Tail(items))

SeqRange(q) == { q[i] : i \in DOMAIN q }

(***************************************************************************)
(* Calls.  A signature is [requiredParameters, numParameters (the length   *)
(* of parameterTypes), hasThis (thisType != null), hasRest].  A call site  *)
(* is [callee, numArguments, hasThis]: the callee, the number of argument  *)
(* expressions written and whether a `this` operand is passed.             *)
(***************************************************************************)
MaxRequired == 1

MaxOptional == 2

Signature(r, n, hasThis, hasRest) ==
  [requiredParameters |-> r, numParameters |-> n, hasThis |-> hasThis, hasRest |-> hasRest]

Site(callee, numArguments, hasThis) ==
  [callee |-> callee, numArguments |-> numArguments, hasThis |-> hasThis]

NoSite == Site(None, 0, FALSE)

\* toNativeZero of the type of parameter i
toNativeZero(i) == IR("zero", None, <<>>, <<>>, i)

\* the lowered argument expression i of a call site, its `this` operand, and
\* the lowered default initializer of optional parameter i
ArgumentExpr(i) == IR("argument", None, <<>>, <<>>, i)

ThisExpr == IR("this", None, <<>>, <<>>, 0)

InitializerExpr(i) == IR("initializer", None, <<>>, <<>>, i)

Is(inst, flag) == flag \in inst.flags

\* a variant of the check without the upper bound on the argument count
checkCallSignatureNoMaximum(signature, numArguments, hasThis) ==
  IF hasThis # signature.hasThis THEN FALSE
  ELSE IF signature.hasRest THEN FALSE
  ELSE IF numArguments < signature.requiredParameters THEN FALSE
  ELSE TRUE

(* checkCallSignature *)
checkCallSignature(signature, numArguments, hasThis) ==
  IF hasThis # signature.hasThis THEN FALSE
  ELSE IF signature.hasRest THEN FALSE
  ELSE IF numArguments < signature.requiredParameters THEN FALSE
  ELSE IF numArguments > signature.numParameters /\ ~signature.hasRest THEN FALSE
  ELSE TRUE

\* a variant of the zero-filling loop that starts at the operand count
ZeroPlaceholdersFromOperands(numArguments, maxArguments) ==
  [j \in 1..(maxArguments - numArguments - 1) |-> toNativeZero(numArguments + j)]

\* the loop of makeCallDirect that fills the omitted arguments
ZeroPlaceholders(numArguments, maxArguments) ==
  [j \in 1..(maxArguments - numArguments) |-> toNativeZero(numArguments + j - 1)]

\* a variant of the trampoline lookup that never finds one
NoCachedTrampoline(inst) == None

\* original.trampoline, None if there is none yet
CachedTrampoline(inst) == inst.trampoline

\* a variant of the nesting whose blocks carry the label of the case before
RECURSIVE TrampolineBlocksShifted(_, _, _)
TrampolineBlocksShifted(i, minOperands, names) ==
  IF i = 0
    THEN createBlock(names[1], <<
           createBlock("N=invalid", << createSwitch(names, "N=invalid", minOperands + Len(names) - 1) >>),
           createUnreachable >>)
    ELSE createBlock(names[i], <<
           TrampolineBlocksShifted(i - 1, minOperands, names),
           createSetLocal(minOperands + i - 1, InitializerExpr(i - 1)) >>)

\* the body that ensureTrampoline builds: a br_table over the number of
\* optional arguments provided, nested in one block per optional parameter
RECURSIVE TrampolineBlocks(_, _, _)
TrampolineBlocks(i, minOperands, names) ==
  IF i = 0
    THEN createBlock(names[1], <<
           createBlock("N=invalid", << createSwitch(names, "N=invalid", minOperands + Len(names) - 1) >>),
           createUnreachable >>)
    ELSE createBlock(names[i + 1], <<
           TrampolineBlocks(i - 1, minOperands, names),
           createSetLocal(minOperands + i - 1, InitializerExpr(i - 1)) >>)

TrampolineNames(numOptional) ==
  [j \in 1..(numOptional + 1) |-> "N=" \o ToString(j - 1)]

TrampolineBody(originalName, minOperands, maxOperands) ==
  LET numOptional == maxOperands - minOperands
      forwardedOperands == [j \in 1..maxOperands |-> createGetLocal(j - 1)]
  IN  createBlock(None, <<
        TrampolineBlocks(numOptional, minOperands, TrampolineNames(numOptional)),
        createCall(originalName, forwardedOperands) >>)

ModuleFunction(name, kind, numParams, body) ==
  [name |-> name, kind |-> kind, numParams |-> numParams, body |-> body]

\* number of parameters of the function type of a signature (ensureFunctionType)
NumParams(signature) == signature.numParameters + (IF signature.hasThis THEN 1 ELSE 0)

(***************************************************************************)
(* The compiler state c threaded through the call machinery:               *)
(* [instances, moduleFuncs, calls, errors, expr], expr being the           *)
(* expression the latest compile... call returned.                         *)
(***************************************************************************)
RECURSIVE compileFunction(_, _), compileCallDirect(_, _), makeCallDirect(_, _, _, _),
          compileBody(_, _)

(* ensureTrampoline *)
ensureTrampoline(c, original) ==
  LET inst == c.instances[original]
      minArguments == inst.signature.requiredParameters
      maxArguments == inst.signature.numParameters
      isInstance == Is(inst, "INSTANCE")
      minOperands == minArguments + (IF isInstance THEN 1 ELSE 0)
      maxOperands == maxArguments + (IF isInstance THEN 1 ELSE 0)
      trampolineName == original \o "|trampoline"
      trampolineSignature ==
        Signature(maxArguments + 1, maxArguments + 1, inst.signature.hasThis, FALSE)
      trampoline == [ signature |-> trampolineSignature,
                      flags |-> inst.flags \cup {"COMPILED"},
                      hasBody |-> inst.hasBody,
                      body |-> <<>>,
                      trampoline |-> None ]
  IN  IF CachedTrampoline(inst) # None THEN c
      ELSE [c EXCEPT
             !.instances = [n \in DOMAIN c.instances \cup {trampolineName} |->
                             IF n = trampolineName THEN trampoline
                             ELSE IF n = original
                               THEN [c.instances[n] EXCEPT !.trampoline = trampolineName]
                               ELSE c.instances[n]],
             !.moduleFuncs = Append(@, ModuleFunction(trampolineName, "function",
                                      NumParams(trampolineSignature),
                                      TrampolineBody(original, minOperands, maxOperands)))]

(* compileFunction *)
compileFunction(c, name) ==
  LET inst == c.instances[name]
      c1 == [c EXCEPT !.instances[name].flags = @ \cup {"COMPILED"}]
  IN  IF Is(inst, "COMPILED") THEN c
      ELSE IF inst.hasBody
        THEN LET c2 == compileBody(c1, inst.body)
             IN  [c2 EXCEPT !.moduleFuncs =
                    Append(@, ModuleFunction(name, "function", NumParams(inst.signature), createNop))]
        ELSE [c1 EXCEPT !.instances[name].flags = @ \cup {"IMPORTED"},
                        !.moduleFuncs =
                    Append(@, ModuleFunction(name, "import", NumParams(inst.signature), createNop))]

\* the statements of a function body: the call sites it holds
compileBody(c, sites) ==
  IF sites = <<>> THEN c
  ELSE compileBody(compileCallDirect(c, Head(sites)), Tail(sites))

(* makeCallDirect *)
makeCallDirect(c, name, operands, site) ==
  LET inst == c.instances[name]
      numOperands == Len(operands)
      isInstance == Is(inst, "INSTANCE")
      numArguments == numOperands - (IF isInstance THEN 1 ELSE 0)
      minArguments == inst.signature.requiredParameters
      maxArguments == inst.signature.numParameters
      minOperands == minArguments + (IF isInstance THEN 1 ELSE 0)
      maxOperands == maxArguments + (IF isInstance THEN 1 ELSE 0)
      c1 == compileFunction(c, name)
      useTrampoline == numOperands < maxOperands
      c2 == IF useTrampoline THEN ensureTrampoline(c1, name) ELSE c1
      target == IF useTrampoline THEN c2.instances[name].trampoline ELSE name
      c3 == compileFunction(c2, target)
      allOperands ==
        IF useTrampoline
          THEN operands \o ZeroPlaceholders(numArguments, maxArguments)
                        \o << createI32(numOperands - minOperands) >>
          ELSE operands
      call == IF Is(c3.instances[target], "IMPORTED")
                THEN createCallImport(target, allOperands)
                ELSE createCall(target, allOperands)
  IN  [c3 EXCEPT !.calls = @ \cup {[expr |-> call, site |-> site]}, !.expr = call]

\* the operands that compileCallDirect and compileCallIndirect collect
CallOperands(numArguments, hasThis) ==
  (IF hasThis THEN <<ThisExpr>> ELSE <<>>) \o [j \in 1..numArguments |-> ArgumentExpr(j - 1)]

(* compileCallDirect *)
compileCallDirect(c, site) ==
  LET signature == c.instances[site.callee].signature
  IN  IF ~checkCallSignature(signature, site.numArguments, site.hasThis)
        THEN [c EXCEPT !.errors = @ + 1, !.expr = createUnreachable]
        ELSE makeCallDirect(c, site.callee, CallOperands(site.numArguments, site.hasThis), site)

(* compileCallIndirect -> makeCallIndirect *)
compileCallIndirect(c, signature, site) ==
  IF ~checkCallSignature(signature, site.numArguments, site.hasThis)
    THEN [c EXCEPT !.errors = @ + 1, !.expr = createUnreachable]
    ELSE LET call == createCallIndirect(CallOperands(site.numArguments, site.hasThis))
         IN  [c EXCEPT !.calls = @ \cup {[expr |-> call, site |-> site]}, !.expr = call]

(***************************************************************************)
(* Execution of a function body: env = [locals, trace]; the result adds    *)
(* status, "normal", "trap" or the label branched to.                      *)
(***************************************************************************)
Event(ev, i, name, args) == [ev |-> ev, i |-> i, name |-> name, args |-> args]

RECURSIVE Exec(_, _), ExecSeq(_, _)

ExecSeq(nodes, env) ==
  IF nodes = <<>> THEN [env |-> env, status |-> "normal"]
  ELSE LET r == Exec(Head(nodes), env)
       IN  IF r.status = "normal" THEN ExecSeq(Tail(nodes), r.env) ELSE r

Exec(node, env) ==
  CASE node.op = "block" ->
         LET r == ExecSeq(node.kids, env)
         IN  IF r.status = node.label THEN [env |-> r.env, status |-> "normal"] ELSE r
    [] node.op = "switch" ->
         LET v == env.locals[node.n + 1][2]
         IN  [env |-> env,
              status |-> IF v >= 0 /\ v < Len(node.names) THEN node.names[v + 1] ELSE node.label]
    [] node.op = "unreachable" -> [env |-> env, status |-> "trap"]
    [] node.op = "set_local" ->
         \* the value is a default initializer: evaluating it is recorded
         LET i == node.kids[1].n
         IN  [env |-> [locals |-> [env.locals EXCEPT ![node.n + 1] = <<"default", i>>],
                       trace |-> Append(env.trace, Event("init", i, None, <<>>))],
              status |-> "normal"]
    [] node.op = "call" ->
         LET args == [j \in DOMAIN node.kids |-> env.locals[node.kids[j].n + 1]]
         IN  [env |-> [env EXCEPT !.trace = Append(@, Event("call", 0, node.label, args))],
              status |-> "normal"]
    [] OTHER -> [env |-> env, status |-> "normal"]

NoRun == [fn |-> None, N |-> 0, trace |-> <<>>, status |-> "none"]

NoResult == [kind |-> "none", site |-> NoSite, expr |-> createNop, rejected |-> FALSE]

CallState ==
  [instances |-> instances, moduleFuncs |-> moduleFuncs, calls |-> {},
   errors |-> errors, expr |-> createNop]

Originals == {"f", "g"}

\* compilation is followed until this many errors have been reported
MaxErrors == 2

\* a call expression somewhere in the program
CompileCallDirect(site) ==
  /\ site.callee \in Originals
  /\ errors < MaxErrors
  /\ LET c == compileCallDirect(CallState, site)
     IN  /\ instances' = c.instances
         /\ moduleFuncs' = c.moduleFuncs
         /\ calls' = c.calls
         /\ errors' = c.errors
         /\ lastResult' = [kind |-> "direct", site |-> site, expr |-> c.expr,
                           rejected |-> c.expr = createUnreachable]
  /\ run' = NoRun
  /\ UNCHANGED nonCallVars

\* a call through a value whose type carries the callee's signature
CompileCallIndirect(site) ==
  /\ site.callee \in Originals
  /\ errors < MaxErrors
  /\ LET c == compileCallIndirect(CallState, instances[site.callee].signature, site)
     IN  /\ instances' = c.instances
         /\ moduleFuncs' = c.moduleFuncs
         /\ calls' = c.calls
         /\ errors' = c.errors
         /\ lastResult' = [kind |-> "indirect", site |-> site, expr |-> c.expr,
                           rejected |-> c.expr = createUnreachable]
  /\ run' = NoRun
  /\ UNCHANGED nonCallVars

\* a reference that compiles the instance: compileFunctionUsingTypeArguments
CompileFunctionInstance(name) ==
  /\ name \in Originals
  /\ errors < MaxErrors
  /\ LET c == compileFunction(CallState, name)
     IN  /\ instances' = c.instances
         /\ moduleFuncs' = c.moduleFuncs
         /\ calls' = c.calls
         /\ errors' = c.errors
  /\ lastResult' = NoResult
  /\ run' = NoRun
  /\ UNCHANGED nonCallVars

\* the module runs the trampoline of `original` with trailing argument N; the
\* other parameters hold what the caller passed
RunTrampoline(original, N) ==
  /\ original \in Originals
  /\ instances[original].trampoline # None
  /\ LET name == instances[original].trampoline
         f == CHOOSE m \in SeqRange(moduleFuncs) : m.name = name
         locals == [j \in 1..f.numParams |->
                      IF j = f.numParams THEN <<"i32", N>> ELSE <<"argument", j - 1>>]
         r == Exec(f.body, [locals |-> locals, trace |-> <<>>])
     IN  run' = [fn |-> original, N |-> N, trace |-> r.env.trace, status |-> r.status]
  /\ calls' = {}
  /\ lastResult' = NoResult
  /\ UNCHANGED <<instances, moduleFuncs, errors>>
  /\ UNCHANGED nonCallVars

(***************************************************************************)
(* Static memory.  A 64-bit offset (I64) is the record [page, rem] of its  *)
(* 64 KiB page and the remainder in the page: offset = page * 65536 + rem. *)
(***************************************************************************)
PageSize == 65536

I64(page, rem) == [page |-> page, rem |-> rem]

\* i64_new(lo) of a non-negative number below 2^31
i64_new(lo) == I64(lo \div PageSize, lo % PageSize)

\* i64_add(left, i64_new(n))
i64_add(left, n) ==
  I64(left.page + (left.rem + n) \div PageSize, (left.rem + n) % PageSize)

\* i64_align: rounds up to the next multiple of a power of two (up to 65536)
i64_align(value, alignment) ==
  LET rem == ((value.rem + alignment - 1) \div alignment) * alignment
  IN  IF rem = PageSize THEN I64(value.page + 1, 0) ELSE I64(value.page, rem)

\* i64_low: the low 32 bits
i64_low(value) == I64(value.page % 65536, value.rem)

\* i64_is_i32: the value is that of a signed 32-bit integer
i64_is_i32(value) == -32768 <= value.page /\ value.page < 32768

\* i64_shr_u(value, 16), as a number
i64_shr_u_16(value) == value.page

\* unsigned comparison
i64_le(a, b) == a.page < b.page \/ (a.page = b.page /\ a.rem <= b.rem)

\* max(options.memoryBase, byteSize)
i64_max(a, b) == IF i64_le(a, b) THEN b ELSE a

\* Module.MAX_MEMORY_WASM32
MAX_MEMORY_WASM32 == 65535

\* options.usizeType.byteSize
UsizeByteSize(target) == IF target = "WASM64" THEN 8 ELSE 4

\* a variant of the start offset that takes options.memoryBase as it is
MemoryBaseAsGiven(memoryBase, byteSize) == memoryBase

\* the constructor's initial memoryOffset
InitialMemoryOffset(memoryBase, byteSize) == i64_max(memoryBase, i64_new(byteSize))

\* the memory state m threaded through: [memoryOffset, memorySegments]
MemorySegment(buffer, offset) == [buffer |-> buffer, offset |-> offset]

(* addMemorySegment: the state after the call; the segment is the last one *)
addMemorySegment(m, buffer, alignment) ==
  LET offset == i64_align(m.memoryOffset, alignment)
      segment == MemorySegment(buffer, offset)
  IN  [memoryOffset |-> i64_add(offset, Len(buffer)),
       memorySegments |-> Append(m.memorySegments, segment)]

\* string values are sequences of UTF-16 code units
MaxStringLength == 2

CodeUnits == {97, 9786}

RECURSIVE StringsUpTo(_)
StringsUpTo(n) ==
  IF n = 0 THEN { <<>> }
  ELSE StringsUpTo(n - 1) \cup
       { Append(v, c) : v \in { w \in StringsUpTo(n - 1) : Len(w) = n - 1 }, c \in CodeUnits }

Strings == StringsUpTo(MaxStringLength)

\* the buffer that compileStaticString fills
stringBuffer(stringValue) ==
  LET stringLength == Len(stringValue)
  IN  [j \in 1..(4 + stringLength * 2) |->
         IF j = 1 THEN stringLength % 256
         ELSE IF j = 2 THEN (stringLength \div 256) % 256
         ELSE IF j = 3 THEN (stringLength \div 65536) % 256
         ELSE IF j = 4 THEN (stringLength \div 16777216) % 256
         ELSE IF j % 2 = 1 THEN stringValue[(j - 3) \div 2] % 256
         ELSE (stringValue[(j - 4) \div 2] \div 256) % 256]

\* a variant of the map key that only looks at the length
StringKeyByLength(stringValue) == Len(stringValue)

\* the key of stringSegments: the string value
StringKey(stringValue) == stringValue

MaxSegments == 3

MaxStringCalls == 3

MemState == [memoryOffset |-> memoryOffset, memorySegments |-> memorySegments]

\* a string literal somewhere in the program
CompileStaticString(stringValue) ==
  /\ memPc = "compiling"
  /\ Len(stringResults) < MaxStringCalls
  /\ Len(memorySegments) < MaxSegments
  /\ LET key == StringKey(stringValue)
         cached == key \in DOMAIN stringSegments
         m == IF cached THEN MemState
              ELSE addMemorySegment(MemState, stringBuffer(stringValue),
                                    UsizeByteSize(options.target))
         stringSegment == IF cached THEN stringSegments[key]
                          ELSE m.memorySegments[Len(m.memorySegments)]
         stringOffset == stringSegment.offset
     IN  /\ memoryOffset' = m.memoryOffset
         /\ memorySegments' = m.memorySegments
         /\ segmentAlignments' =
              IF cached THEN segmentAlignments
              ELSE Append(segmentAlignments, UsizeByteSize(options.target))
         /\ stringSegments' =
              IF cached THEN stringSegments
              ELSE [k \in DOMAIN stringSegments \cup {key} |->
                      IF k = key THEN stringSegment ELSE stringSegments[k]]
         /\ IF options.target = "WASM64"
              THEN /\ stringResults' =
                        Append(stringResults, [value |-> stringValue, offset |-> stringOffset])
                   /\ memPc' = memPc
              ELSE IF i64_is_i32(stringOffset)
                THEN /\ stringResults' =
                          Append(stringResults,
                                 [value |-> stringValue, offset |-> i64_low(stringOffset)])
                     /\ memPc' = memPc
                ELSE /\ stringResults' = stringResults
                     /\ memPc' = "aborted"
  /\ UNCHANGED <<options, heapBase, memory>>
  /\ UNCHANGED nonMemVars

\* the buffer of a segment that is no string: `length` bytes 0xff
RawBuffer(length) == [j \in 1..length |-> 255]

\* any other static data
AddMemorySegment(length, alignment) ==
  /\ memPc = "compiling"
  /\ Len(memorySegments) < MaxSegments
  /\ LET m == addMemorySegment(MemState, RawBuffer(length), alignment)
     IN  /\ memoryOffset' = m.memoryOffset
         /\ memorySegments' = m.memorySegments
  /\ segmentAlignments' = Append(segmentAlignments, alignment)
  /\ UNCHANGED <<options, stringSegments, stringResults, memPc, heapBase, memory>>
  /\ UNCHANGED nonMemVars

\* compile(): "set up static memory segments and the heap base pointer"
CompileMemory ==
  /\ memPc = "compiling"
  /\ memPc' = "compiled"
  /\ IF ~options.noMemory
       THEN LET aligned == i64_align(memoryOffset, UsizeByteSize(options.target))
                pages == i64_shr_u_16(i64_align(aligned, PageSize))
            IN  /\ memoryOffset' = aligned
                /\ heapBase' =
                     IF options.target = "WASM64"
                       THEN [type |-> "i64", mutable |-> FALSE, value |-> aligned]
                       ELSE [type |-> "i32", mutable |-> FALSE, value |-> i64_low(aligned)]
                /\ memory' = [initial |-> pages, maximum |-> MAX_MEMORY_WASM32]
       ELSE UNCHANGED <<memoryOffset, heapBase, memory>>
  /\ UNCHANGED <<options, memorySegments, segmentAlignments, stringSegments, stringResults>>
  /\ UNCHANGED nonMemVars

(***************************************************************************)
(* Function table.                                                         *)
(***************************************************************************)
Functions == {"f1", "f2", "f3"}

\* the functionTableIndex of a function that has no table entry
NoTableIndex == -1

MaxRequests == 4

\* a variant of the test that takes index 0 for "not entered"
HasPositiveTableIndex(index) == index > 0

\* func.functionTableIndex >= 0
HasTableIndex(index) == index >= 0

\* the function is compiled (compileFunction sets COMPILED)
CompileTableFunction(func) ==
  /\ tablePc = "compiling"
  /\ func \notin tableCompiled
  /\ tableCompiled' = tableCompiled \cup {func}
  /\ UNCHANGED <<functionTable, functionTableIndex, tableRequests, tablePc>>
  /\ UNCHANGED nonTableVars

(* ensureFunctionTableEntry *)
EnsureFunctionTableEntry(func) ==
  /\ tablePc = "compiling"
  /\ Len(tableRequests) < MaxRequests
  /\ IF func \notin tableCompiled
       THEN /\ tablePc' = "aborted"
            /\ UNCHANGED <<functionTable, functionTableIndex, tableRequests>>
       ELSE IF HasTableIndex(functionTableIndex[func])
         THEN /\ tableRequests' =
                   Append(tableRequests, [func |-> func, index |-> functionTableIndex[func]])
              /\ UNCHANGED <<functionTable, functionTableIndex, tablePc>>
         ELSE LET index == Len(functionTable)
              IN  /\ functionTable' = Append(functionTable, func)
                  /\ functionTableIndex' = [functionTableIndex EXCEPT ![func] = index]
                  /\ tableRequests' = Append(tableRequests, [func |-> func, index |-> index])
                  /\ tablePc' = tablePc
  /\ UNCHANGED tableCompiled
  /\ UNCHANGED nonTableVars

(***************************************************************************)
(* Globals.  The Global element is a record: declaration facts             *)
(* (isConstant, isDeclared for an ambient `declare`, isTopLevel,           *)
(* initializer, typeResolves, hasFunctionType), its flags and the cached   *)
(* constantIntegerValue.                                                   *)
(***************************************************************************)
createGetGlobal(name) == IR("get_global", name, <<>>, <<>>, 0)

createSetGlobal(name, value) == IR("set_global", name, <<>>, <<value>>, 0)

createBinaryAdd(left, right) == IR("i32.add", None, <<>>, <<left, right>>, 0)

\* _BinaryenExpressionGetId(expr) == ExpressionId.Const
IsConst(expr) == expr.op = "i32.const"

\* the initializers of a declaration: a literal (or a function expression,
\* which lowers to the constant of its table index), a sum of literals, and a
\* call
Initializers ==
  [ literal |-> createI32(7),
    folds |-> createBinaryAdd(createI32(3), createI32(4)),
    dynamic |-> createCall("compute", <<>>) ]

\* a variant of the precomputation that folds nothing
precomputeNothing(expr) == expr

\* precomputeExpressionRef: folds an expression of constants
precomputeExpressionRef(expr) ==
  IF expr.op = "i32.add" /\ IsConst(expr.kids[1]) /\ IsConst(expr.kids[2])
    THEN createI32(expr.kids[1].n + expr.kids[2].n)
    ELSE expr

NoConstantValue == 0

GlobalElement(isConstant, isDeclared, isTopLevel, initializer, typeResolves, hasFunctionType) ==
  [ name |-> "g", isConstant |-> isConstant, isDeclared |-> isDeclared,
    isTopLevel |-> isTopLevel, initializer |-> initializer,
    typeResolves |-> typeResolves, hasFunctionType |-> hasFunctionType,
    flags |-> {}, typeIsVoid |-> TRUE, constantIntegerValue |-> NoConstantValue ]

ModuleGlobal(name, kind, mutable, init) ==
  [name |-> name, kind |-> kind, mutable |-> mutable, init |-> init]

(* compileInlineConstant of an i32 element *)
compileInlineConstant(element) == createI32(element.constantIntegerValue)

\* the state threaded through compileGlobal: [global, module, start, warnings, ok]
GlobalState ==
  [global |-> global, module |-> moduleGlobals, start |-> globalStart,
   warnings |-> globalWarnings, ok |-> TRUE]

(* compileGlobal *)
compileGlobalElement(st) ==
  LET g == st.global
      flagged == [g EXCEPT !.flags = @ \cup {"COMPILED"}]
      typed == [flagged EXCEPT !.typeIsVoid = FALSE]
      zero == toNativeZero(0)
  IN  IF "COMPILED" \in g.flags THEN [st EXCEPT !.ok = TRUE]
      ELSE IF g.typeIsVoid /\ ~g.typeResolves
        THEN [st EXCEPT !.global = flagged, !.ok = FALSE]
      ELSE IF g.isDeclared
        THEN IF g.isConstant
               THEN [st EXCEPT !.global = typed, !.ok = TRUE,
                               !.module = Append(@, ModuleGlobal(g.name, "import", FALSE, None))]
               ELSE [st EXCEPT !.global = typed, !.ok = FALSE]
      ELSE
        LET compiled == IF g.initializer = None THEN zero ELSE Initializers[g.initializer]
            tryPrecompute == g.initializer # None /\ ~IsConst(compiled) /\ g.isConstant
            initExpr ==
              IF "INLINED" \in g.flags THEN compileInlineConstant(g)
              ELSE IF tryPrecompute THEN precomputeExpressionRef(compiled)
              ELSE compiled
            initializeInStart ==
              /\ "INLINED" \notin g.flags
              /\ g.initializer # None
              /\ ~IsConst(initExpr)
            warns == initializeInStart /\ g.isConstant
        IN  IF initializeInStart
              THEN [st EXCEPT
                     !.global = typed, !.ok = TRUE,
                     !.warnings = @ + (IF warns THEN 1 ELSE 0),
                     !.module = Append(@, ModuleGlobal(g.name, "global", TRUE, zero)),
                     !.start = Append(@, createSetGlobal(g.name, initExpr))]
            ELSE IF g.isConstant
              THEN [st EXCEPT
                     !.global = [typed EXCEPT !.flags = @ \cup {"INLINED"},
                                              !.constantIntegerValue = initExpr.n],
                     !.ok = TRUE,
                     !.module = IF g.isTopLevel
                                  THEN Append(@, ModuleGlobal(g.name, "global", FALSE, initExpr))
                                  ELSE @]
              ELSE [st EXCEPT
                     !.global = typed, !.ok = TRUE,
                     !.module = Append(@, ModuleGlobal(g.name, "global", ~g.isConstant, initExpr))]

NoRead == [site |-> None, value |-> createNop]

\* the variable statement of the global, or any other caller of compileGlobal
CompileGlobal ==
  /\ globalPc = "compiling"
  /\ LET st == compileGlobalElement(GlobalState)
     IN  /\ global' = st.global
         /\ moduleGlobals' = st.module
         /\ globalStart' = st.start
         /\ globalWarnings' = st.warnings
         /\ globalResult' = <<st.ok>>
  /\ lastRead' = NoRead
  /\ UNCHANGED globalPc
  /\ UNCHANGED nonGlobalVars

\* case ElementKind.GLOBAL of compileIdentifierExpression ("identifier") and of
\* compilePropertyAccessExpression ("property")
ReadGlobal(site) ==
  /\ globalPc = "compiling"
  /\ LET st == compileGlobalElement(GlobalState)
     IN  /\ global' = st.global
         /\ moduleGlobals' = st.module
         /\ globalStart' = st.start
         /\ globalWarnings' = st.warnings
         /\ globalResult' = <<st.ok>>
         /\ IF ~st.ok
              THEN /\ lastRead' = [site |-> site, value |-> createUnreachable]
                   /\ UNCHANGED globalPc
              ELSE IF st.global.typeIsVoid
                THEN /\ lastRead' = NoRead
                     /\ globalPc' = "aborted"
                ELSE /\ lastRead' =
                          [site |-> site,
                           value |-> IF "INLINED" \in st.global.flags
                                       THEN compileInlineConstant(st.global)
                                       ELSE createGetGlobal(st.global.name)]
                     /\ UNCHANGED globalPc
  /\ UNCHANGED nonGlobalVars

\* case ElementKind.GLOBAL of compileCallExpression: the callee value of an
\* indirect call
CallThroughGlobal ==
  /\ globalPc = "compiling"
  /\ lastRead' =
       [site |-> "call",
        value |-> IF global.hasFunctionType THEN createGetGlobal(global.name)
                  ELSE createUnreachable]
  /\ globalResult' = <<>>
  /\ UNCHANGED <<global, moduleGlobals, globalStart, globalWarnings, globalPc>>
  /\ UNCHANGED nonGlobalVars

(***************************************************************************)
(* Enums.  A value declaration is [kind, value]: kind "none" (no           *)
(* initializer), "literal" (value is the literal), "folds" (a sum of       *)
(* literals, value its second operand) or "dynamic" (a call; value is what *)
(* the call returns when the start function runs).  i32 arithmetic wraps.  *)
(***************************************************************************)
MaxI32 == 2147483647

MinI32 == -2147483647 - 1

\* i32 addition of one: the value createI32(constantValue + 1) and
\* BinaryOp.AddI32 with the constant 1 both produce
AddOneI32(value) == IF value = MaxI32 THEN MinI32 ELSE value + 1

MaxMembers == 3

ValueDeclaration(kind, value) == [kind |-> kind, value |-> value]

ValueDeclarations ==
  { ValueDeclaration("none", 0) } \cup
  { ValueDeclaration("literal", v) : v \in {-1, MaxI32} } \cup
  { ValueDeclaration("folds", 4) } \cup
  { ValueDeclaration("dynamic", v) : v \in {5, MaxI32} }

MemberName(i) == "E." \o ToString(i)

\* compileExpression(valueDeclaration.value, Type.i32)
compileValueExpression(declaration) ==
  CASE declaration.kind = "literal" -> createI32(declaration.value)
    [] declaration.kind = "folds" -> createBinaryAdd(createI32(3), createI32(declaration.value))
    [] OTHER -> IR("call", "compute", <<>>, <<>>, declaration.value)

EnumValue(flags, constantValue) == [flags |-> flags, constantValue |-> constantValue]

\* a variant that numbers every initializer-less member from zero
FirstMemberValue(previousConstantValue) == createI32(0)

\* createI32(previousValue.constantValue + 1)
NextMemberValue(previousConstantValue) == createI32(AddOneI32(previousConstantValue))

\* one iteration of the loop of compileEnum, for member i; e is
\* [values, module, start, warnings]
compileEnumMember(e, decl, i) ==
  LET declaration == decl.members[i]
      name == MemberName(i)
      hasPrevious == i > 1
      previous == e.values[i - 1]
      compiled == compileValueExpression(declaration)
      folded == IF IsConst(compiled) THEN compiled ELSE precomputeExpressionRef(compiled)
      initExpr ==
        IF declaration.kind # "none" THEN folded
        ELSE IF ~hasPrevious THEN createI32(0)
        ELSE IF "INLINED" \in previous.flags THEN NextMemberValue(previous.constantValue)
        ELSE createBinaryAdd(createGetGlobal(MemberName(i - 1)), createI32(1))
      initInStart == ~IsConst(initExpr)
  IN  IF initInStart
        THEN [ values |-> Append(e.values, EnumValue({"COMPILED"}, 0)),
               module |-> Append(e.module, ModuleGlobal(name, "global", TRUE, createI32(0))),
               start |-> Append(e.start, createSetGlobal(name, initExpr)),
               warnings |-> e.warnings + (IF decl.isConstant THEN 1 ELSE 0) ]
        ELSE [ values |-> Append(e.values, EnumValue({"COMPILED", "INLINED"}, initExpr.n)),
               module |-> Append(e.module, ModuleGlobal(name, "global", FALSE, initExpr)),
               start |-> e.start,
               warnings |-> e.warnings ]

RECURSIVE compileEnumMembers(_, _, _)
compileEnumMembers(e, decl, i) ==
  IF i > Len(decl.members) THEN e
  ELSE compileEnumMembers(compileEnumMember(e, decl, i), decl, i + 1)

(* compileEnum *)
CompileEnum ==
  /\ enumPc = "declared"
  /\ LET e == compileEnumMembers([values |-> <<>>, module |-> <<>>, start |-> <<>>,
                                  warnings |-> 0], enumDecl, 1)
     IN  /\ enumValues' = e.values
         /\ enumModule' = e.module
         /\ enumStart' = e.start
         /\ enumWarnings' = e.warnings
         \* instantiation: every global holds its initializer
         /\ enumGlobals' = [i \in DOMAIN e.module |-> e.module[i].init.n]
  /\ enumPc' = "compiled"
  /\ UNCHANGED enumDecl
  /\ UNCHANGED nonEnumVars

\* the value of an initializer expression at run time
EvalI32(expr, globals) ==
  CASE expr.op = "i32.const" -> expr.n
    [] expr.op = "call" -> expr.n
    [] expr.op = "i32.add" /\ expr.kids[1].op = "get_global" ->
         AddOneI32(globals[CHOOSE i \in DOMAIN globals : MemberName(i) = expr.kids[1].label])
    [] OTHER -> 0

RECURSIVE RunSetGlobals(_, _)
RunSetGlobals(body, globals) ==
  IF body = <<>> THEN globals
  ELSE LET set == Head(body)
           i == CHOOSE j \in DOMAIN globals : MemberName(j) = set.label
       IN  RunSetGlobals(Tail(body),
                         [globals EXCEPT ![i] = EvalI32(set.kids[1], globals)])

\* the module is instantiated and its start function runs
RunStartFunction ==
  /\ enumPc = "compiled"
  /\ enumGlobals' = RunSetGlobals(enumStart, enumGlobals)
  /\ enumPc' = "started"
  /\ UNCHANGED <<enumDecl, enumValues, enumModule, enumStart, enumWarnings>>
  /\ UNCHANGED nonEnumVars

(***************************************************************************)
(* Small integers: makeSmallIntegerWrap, and the stores that compound      *)
(* assignments and ++/-- make into a local.  An expression is modelled by  *)
(* the i32 it evaluates to.                                                *)
(***************************************************************************)

\* the powers of two an i32 has a bit for
PowersOfTwo ==
  <<1, 2, 4, 8, 16, 32, 64, 128, 256, 512, 1024, 2048, 4096, 8192, 16384, 32768,
    65536, 131072, 262144, 524288, 1048576, 2097152, 4194304, 8388608, 16777216,
    33554432, 67108864, 134217728, 268435456, 536870912, 1073741824>>

Pow2(n) == PowersOfTwo[n + 1]

\* TypeKind.I8, I16, U8, U16, BOOL: TypeFlags.SMALL | TypeFlags.INTEGER
SmallTypes == {"i8", "i16", "u8", "u16", "bool"}

\* Type.size of the integer types of at most 32 bits
TypeSize(type) ==
  CASE type \in {"i8", "u8"} -> 8
    [] type \in {"i16", "u16"} -> 16
    [] type = "bool" -> 1
    [] OTHER -> 32

\* TypeFlags.SIGNED
IsSigned(type) == type \in {"i8", "i16", "i32", "isize"}

\* the values a variable of the type may hold, as the i32 that represents them
IsValidValue(value, type) ==
  IF TypeSize(type) = 32
  THEN TRUE
  ELSE IF IsSigned(type)
       THEN -Pow2(TypeSize(type) - 1) <= value /\ value < Pow2(TypeSize(type) - 1)
       ELSE 0 <= value /\ value < Pow2(TypeSize(type))

\* bit i (0..30) of an i32 in two's complement; bit 31 is the sign
BitI32(x, i) == IF i = 31 THEN (IF x < 0 THEN 1 ELSE 0) ELSE (x \div Pow2(i)) % 2

BitOp(op, a, b) ==
  CASE op = "and" -> IF a = 1 /\ b = 1 THEN 1 ELSE 0
    [] op = "or"  -> IF a = 1 \/ b = 1 THEN 1 ELSE 0
    [] op = "xor" -> IF a # b THEN 1 ELSE 0

RECURSIVE LowBitsI32(_, _, _, _)
LowBitsI32(op, x, y, i) ==
  IF i < 0 THEN 0
  ELSE BitOp(op, BitI32(x, i), BitI32(y, i)) * Pow2(i) + LowBitsI32(op, x, y, i - 1)

BitwiseI32(op, x, y) ==
  IF BitOp(op, BitI32(x, 31), BitI32(y, 31)) = 1
  THEN (LowBitsI32(op, x, y, 30) - MaxI32) - 1
  ELSE LowBitsI32(op, x, y, 30)

\* BinaryOp.AndI32, OrI32, XorI32
AndI32(x, y) == BitwiseI32("and", x, y)

OrI32(x, y) == BitwiseI32("or", x, y)

XorI32(x, y) == BitwiseI32("xor", x, y)

\* BinaryOp.ShlI32: the count is taken modulo 32, the bits shifted out are lost
ShlI32(x, n) ==
  LET k == n % 32
  IN  IF k = 0 THEN x
      ELSE LET low == x % Pow2(31 - k)
               top == (x \div Pow2(31 - k)) % 2
               shifted == IF low = 0 THEN 0 ELSE low * Pow2(k)
           IN  IF top = 1 THEN (shifted - MaxI32) - 1 ELSE shifted

\* BinaryOp.ShrI32: arithmetic shift right
ShrI32(x, n) ==
  IF n % 32 = 31 THEN (IF x < 0 THEN -1 ELSE 0) ELSE x \div Pow2(n % 32)

\* an i32 from its signed upper and its lower 16 bits, each taken modulo 2^16
FromHalvesI32(hi, lo) == (((hi + 32768) % 65536) - 32768) * 65536 + (lo % 65536)

\* BinaryOp.AddI32, SubI32: modulo 2^32, computed on 16-bit halves
AddI32(x, y) ==
  LET lo == (x % 65536) + (y % 65536)
  IN  FromHalvesI32((x \div 65536) + (y \div 65536) + (lo \div 65536), lo)

SubI32(x, y) ==
  LET lo == (x % 65536) - (y % 65536)
  IN  FromHalvesI32((x \div 65536) - (y \div 65536) + (lo \div 65536), lo)

\* the product of two 16-bit halves modulo 2^16, by 8-bit parts of the second
MulMod16(a, b) ==
  LET a16 == a % 65536
      b16 == b % 65536
  IN  (a16 * (b16 % 256) + ((a16 * (b16 \div 256)) % 256) * 256) % 65536

\* BinaryOp.MulI32: modulo 2^32, from the partial products of the 16-bit halves
MulI32(x, y) ==
  LET xl == x % 65536
      yl == y % 65536
      low == AddI32(xl * (yl % 256), ShlI32(xl * (yl \div 256), 8))
      cross == (MulMod16(x \div 65536, yl) + MulMod16(xl, y \div 65536)) % 65536
  IN  AddI32(low, ShlI32(cross, 16))

makeSmallIntegerWrap(expr, type) ==
  CASE type = "i8"   -> ShrI32(ShlI32(expr, 24), 24)
    [] type = "i16"  -> ShrI32(ShlI32(expr, 16), 16)
    [] type = "u8"   -> AndI32(expr, 255)
    [] type = "u16"  -> AndI32(expr, 65535)
    [] type = "bool" -> AndI32(expr, 1)

\* the compound assignment operators whose case sets possiblyOverflows for a
\* small integer type and compiles both operands without a wrap
CompoundOperators == {"+=", "-=", "*=", "<<=", "&=", "|=", "^="}

\* module.createBinary(op, left, right) of the operator's case, evaluated
createBinary(operator, left, right) ==
  CASE operator = "+="  -> AddI32(left, right)
    [] operator = "-="  -> SubI32(left, right)
    [] operator = "*="  -> MulI32(left, right)
    [] operator = "<<=" -> ShlI32(left, right)
    [] operator = "&="  -> AndI32(left, right)
    [] operator = "|="  -> OrI32(left, right)
    [] operator = "^="  -> XorI32(left, right)
    [] operator = "++"  -> AddI32(left, 1)
    [] operator = "--"  -> SubI32(left, 1)

\* where the assignment stands, and the wrapSmallIntegers its compile call
\* is given: compileExpressionStatement leaves the default (true),
\* compileVoidStatement passes false, and the operand of +, -, *, <<, &, |, ^
\* is compiled with false, which compileParenthesizedExpression hands on
Contexts == {"expression statement", "void statement", "parenthesized operand"}

WrapSmallIntegersOf(context) == context = "expression statement"

\* the tail of compileBinaryExpression and of compileUnaryPrefixExpression:
\* the value handed to compileAssignmentWithValue
compoundValue(operator, left, right, type, wrapSmallIntegers) ==
  LET expr == createBinary(operator, left, right)
      possiblyOverflows == type \in SmallTypes
  IN  IF possiblyOverflows /\ wrapSmallIntegers
      THEN makeSmallIntegerWrap(expr, type)
      ELSE expr

\* compileUnaryPostfixExpression: the value handed to compileAssignmentWithValue
postfixValue(operator, value, type) ==
  LET setValue == createBinary(operator, value, 1)
      possiblyOverflows == type \in SmallTypes
  IN  IF possiblyOverflows THEN makeSmallIntegerWrap(setValue, type) ELSE setValue

NoStore == [kind |-> "none", operator |-> None, context |-> None, before |-> 0]

LocalTypes == SmallTypes \cup {"i32"}

\* the values the sources here assign and use as right operands
SampleValues == {-32768, -128, -1, 0, 1, 2, 3, 127, 255, 32767, 65535}

Operands == {-1, 0, 1, 2, 3}

\* the number of stores followed
MaxStores == 2

\* `a op= right` with a local a: compileBinaryExpression, then
\* compileAssignmentWithValue's set_local / tee_local of the value
CompileCompoundAssignment ==
  /\ stores < MaxStores
  /\ \E operator \in CompoundOperators, context \in Contexts, right \in Operands :
       /\ IsValidValue(right, localType)
       /\ localValue' = compoundValue(operator, localValue, right, localType,
                                      WrapSmallIntegersOf(context))
       /\ lastStore' = [kind |-> "compound", operator |-> operator, context |-> context,
                        before |-> localValue]
  /\ stores' = stores + 1
  /\ UNCHANGED localType
  /\ UNCHANGED nonSmallVars

\* `++a` / `--a` with a local a: compileUnaryPrefixExpression
CompileUnaryPrefix ==
  /\ stores < MaxStores
  /\ \E operator \in {"++", "--"}, context \in Contexts :
       /\ localValue' = compoundValue(operator, localValue, 1, localType,
                                      WrapSmallIntegersOf(context))
       /\ lastStore' = [kind |-> "prefix", operator |-> operator, context |-> context,
                        before |-> localValue]
  /\ stores' = stores + 1
  /\ UNCHANGED localType
  /\ UNCHANGED nonSmallVars

\* `a++` / `a--` with a local a: compileUnaryPostfixExpression
CompileUnaryPostfix ==
  /\ stores < MaxStores
  /\ \E operator \in {"++", "--"}, context \in Contexts :
       /\ localValue' = postfixValue(operator, localValue, localType)
       /\ lastStore' = [kind |-> "postfix", operator |-> operator, context |-> context,
                        before |-> localValue]
  /\ stores' = stores + 1
  /\ UNCHANGED localType
  /\ UNCHANGED nonSmallVars

(***************************************************************************)
(* Integer literals: compileLiteralExpression, case LiteralKind.INTEGER.   *)
(* A literal value is an I64 of page * 65536 + rem, the page signed.       *)
(***************************************************************************)

\* i64_sub(i64_new(0), value)
i64_neg(value) ==
  IF value.rem = 0 THEN I64(0 - value.page, 0)
  ELSE I64(0 - value.page - 1, PageSize - value.rem)

\* signed comparison of two I64
i64_le_s(a, b) == a.page < b.page \/ (a.page = b.page /\ a.rem <= b.rem)

\* the I64 of an integer of at most 32 bits
i64_of(n) == I64(n \div PageSize, n % PageSize)

\* i64_is_i8, i64_is_i16, i64_is_u8, i64_is_u16, i64_is_bool
i64_is_i8(value) == i64_le_s(i64_of(-128), value) /\ i64_le_s(value, i64_of(127))

i64_is_i16(value) == i64_le_s(i64_of(-32768), value) /\ i64_le_s(value, i64_of(32767))

i64_is_u8(value) == i64_le_s(i64_of(0), value) /\ i64_le_s(value, i64_of(255))

i64_is_u16(value) == i64_le_s(i64_of(0), value) /\ i64_le_s(value, i64_of(65535))

i64_is_bool(value) == value = i64_of(0) \/ value = i64_of(1)

\* i64_is_u32
i64_is_u32(value) == 0 <= value.page /\ value.page < 65536

\* module.createI32(i64_low(value)): the low 32 bits as an i32
createI32Low(value) ==
  [op |-> "i32.const", value |-> FromHalvesI32(i64_low(value).page, i64_low(value).rem)]

\* module.createI64(i64_low(value), i64_high(value))
createI64(value) == [op |-> "i64.const", value |-> value]

\* the check compileLiteralExpression makes for a 32-bit isize (line 4450)
IsizeFits(value) == i64_is_u32(value)

\* the first switch of case LiteralKind.INTEGER: TRUE iff the literal is
\* compiled to the contextual type
MatchesContextualType(intValue, contextualType) ==
  CASE contextualType = "i8"    -> i64_is_i8(intValue)
    [] contextualType = "i16"   -> i64_is_i16(intValue)
    [] contextualType = "i32"   -> i64_is_i32(intValue)
    [] contextualType = "u8"    -> i64_is_u8(intValue)
    [] contextualType = "u16"   -> i64_is_u16(intValue)
    [] contextualType = "u32"   -> i64_is_u32(intValue)
    [] contextualType = "bool"  -> i64_is_bool(intValue)
    [] contextualType = "isize" -> IsizeFits(intValue)
    [] contextualType = "usize" -> i64_is_u32(intValue)
    [] contextualType = "void"  -> FALSE

\* compileLiteralExpression(expression, contextualType, implicitNegate) of an
\* integer literal, with !options.isWasm64; currentType is the contextual type
\* on entry (compileExpression sets it)
compileLiteralExpression(value, contextualType, implicitNegate) ==
  LET intValue == IF implicitNegate THEN i64_neg(value) ELSE value
  IN  IF MatchesContextualType(intValue, contextualType)
      THEN createI32Low(intValue) @@ [currentType |-> contextualType]
      ELSE IF i64_is_i32(intValue)
           THEN createI32Low(intValue) @@ [currentType |-> "i32"]
           ELSE createI64(intValue) @@ [currentType |-> "i64"]

\* the contextual types of at most 32 bits, and void
ContextualTypes == {"i8", "i16", "i32", "u8", "u16", "u32", "bool", "isize", "usize", "void"}

\* the literal values the tokenizer yields: non-negative, here up to 2^32 + 1
LiteralValues ==
  { i64_of(n) : n \in {0, 1, 2, 127, 128, 129, 255, 256, 32767, 32768, 32769,
                       65535, 65536, MaxI32} }
    \cup { I64(32768, 0), I64(32768, 1), I64(65535, 65535), I64(65536, 0), I64(65536, 1) }

\* the value range of a contextual type of at most 32 bits
InValueRange(value, type) ==
  CASE type \in {"i8", "i16"} ->
         /\ i64_le_s(i64_of(-Pow2(TypeSize(type) - 1)), value)
         /\ i64_le_s(value, i64_of(Pow2(TypeSize(type) - 1) - 1))
    [] type \in {"i32", "isize"} ->
         i64_le_s(i64_of(MinI32), value) /\ i64_le_s(value, i64_of(MaxI32))
    [] type \in {"u8", "u16", "bool"} ->
         i64_le_s(i64_of(0), value) /\ i64_le_s(value, i64_of(Pow2(TypeSize(type)) - 1))
    [] type \in {"u32", "usize"} ->
         i64_le_s(i64_of(0), value) /\ i64_le_s(value, I64(65535, 65535))

NoLiteralExpr == [op |-> "none", value |-> 0, currentType |-> "void"]

\* compileExpression of a literal, or compileUnaryPrefixExpression of `-literal`
CompileLiteral ==
  /\ literalExpr.op = "none"
  /\ literalExpr' = compileLiteralExpression(literal.value, literal.contextualType,
                                            literal.implicitNegate)
  /\ UNCHANGED literal
  /\ UNCHANGED nonLiteralVars

(***************************************************************************)
(* Tree shaking: the conditions under which compileSource and              *)
(* compileNamespaceDeclaration compile a declaration.  A declaration is    *)
(* [kind, exported, isGeneric, members], members the member declarations   *)
(* of a namespace.                                                         *)
(***************************************************************************)

Declaration(kind, exported, isGeneric, members) ==
  [kind |-> kind, exported |-> exported, isGeneric |-> isGeneric, members |-> members]

\* functions and classes, generic or not; enums and variable statements
LeafDeclarations ==
  { Declaration(k, e, g, <<>>) : k \in {"function", "class"}, e \in BOOLEAN, g \in BOOLEAN } \cup
  { Declaration(k, e, FALSE, <<>>) : k \in {"enum", "variable"}, e \in BOOLEAN }

InterfaceDeclarations ==
  { Declaration("interface", e, g, <<>>) : e \in BOOLEAN, g \in BOOLEAN }

\* a namespace nested in a namespace, with one function as its member
InnerNamespaces ==
  { Declaration("namespace", e, FALSE, <<m>>) :
      e \in BOOLEAN,
      m \in { Declaration("function", me, mg, <<>>) : me \in BOOLEAN, mg \in BOOLEAN } }

\* the member lists of a top-level namespace
NamespaceBodies ==
  { <<>> } \cup
  { <<m>> : m \in LeafDeclarations \cup InterfaceDeclarations \cup InnerNamespaces } \cup
  { <<a, b>> : a, b \in { Declaration("function", TRUE, FALSE, <<>>),
                          Declaration("variable", FALSE, FALSE, <<>>),
                          Declaration("class", TRUE, TRUE, <<>>) } }

\* the top-level declarations of a source
TopLevelDeclarations ==
  LeafDeclarations \cup
  { Declaration("namespace", e, FALSE, body) : e \in BOOLEAN, body \in NamespaceBodies }

Element(source, path, declaration) ==
  [source |-> source, path |-> path, declaration |-> declaration]

\* a variant of the condition that does not look at the source
ShouldCompileExported(noTS, entry, exported) == noTS \/ exported

\* noTreeShaking || (isEntry && hasModifier(ModifierKind.EXPORT, modifiers))
ShouldCompile(noTS, entry, exported) == noTS \/ (entry /\ exported)

\* the condition compileNamespaceDeclaration puts on a member
ShouldCompileMember(noTS, member) ==
  /\ noTS \/ member.exported
  /\ member.kind \in {"class", "interface", "function"} => ~member.isGeneric

\* compileNamespaceDeclaration(declaration): the declarations compiled, those
\* of nested namespaces included
RECURSIVE compileNamespaceMembers(_, _, _, _)
compileNamespaceMembers(source, path, members, noTS) ==
  IF members = <<>> THEN {}
  ELSE LET member == Head(members)
           compiled ==
             IF ShouldCompileMember(noTS, member)
             THEN {Element(source, path, member)} \cup
                  (IF member.kind = "namespace"
                   THEN compileNamespaceMembers(source, Append(path, member),
                                                member.members, noTS)
                   ELSE {})
             ELSE {}
       IN  compiled \cup compileNamespaceMembers(source, path, Tail(members), noTS)

compileNamespaceDeclaration(source, path, declaration, noTS) ==
  compileNamespaceMembers(source, Append(path, declaration), declaration.members, noTS)

\* the switch of compileSource on a top-level declaration: the declarations
\* compiled
compileTopLevelDeclaration(source, declaration, noTS) ==
  CASE declaration.kind \in {"class", "function"} ->
         IF ShouldCompile(noTS, isEntry(source), declaration.exported) /\ ~declaration.isGeneric
         THEN {Element(source, <<>>, declaration)} ELSE {}
    [] declaration.kind = "enum" ->
         IF ShouldCompile(noTS, isEntry(source), declaration.exported)
         THEN {Element(source, <<>>, declaration)} ELSE {}
    [] declaration.kind = "namespace" ->
         IF ShouldCompile(noTS, isEntry(source), declaration.exported)
         THEN {Element(source, <<>>, declaration)} \cup
              compileNamespaceDeclaration(source, <<>>, declaration, noTS)
         ELSE {}
    [] declaration.kind = "variable" -> {Element(source, <<>>, declaration)}

\* the number of top-level declarations processed
MaxDeclarations == 2

\* compileSource processes the next statement of the source, a declaration
TraverseDeclaration ==
  /\ travSource # None
  /\ Cardinality(travVisited) < MaxDeclarations
  /\ \E declaration \in TopLevelDeclarations :
       /\ travVisited' = travVisited \cup {<<travSource, declaration>>}
       /\ travCompiled' = travCompiled \cup
            compileTopLevelDeclaration(travSource, declaration, travNoTreeShaking)
  /\ UNCHANGED <<travNoTreeShaking, travSource, travFiles>>
  /\ UNCHANGED nonTravVars

\* case NodeKind.IMPORT in the entry source: compileSourceByPath enters the
\* imported source unless it is in files
TraverseImport ==
  /\ travSource = "main"
  /\ ~filesHas(travFiles, "lib")
  /\ travFiles' = travFiles \cup {"lib"}
  /\ travSource' = "lib"
  /\ UNCHANGED <<travNoTreeShaking, travVisited, travCompiled>>
  /\ UNCHANGED nonTravVars

\* compileSource of the imported source returns
TraverseReturn ==
  /\ travSource = "lib"
  /\ travSource' = "main"
  /\ UNCHANGED <<travNoTreeShaking, travFiles, travVisited, travCompiled>>
  /\ UNCHANGED nonTravVars

(***************************************************************************)
(* Integer conversions: convertExpression, the branch `int to int`.  The   *)
(* expression converted is modelled by the value it evaluates to.          *)
(***************************************************************************)

\* TypeFlags.LONG
IsLong(type) == type \in {"i64", "u64"}

IntegerTypes == {"i8", "i16", "i32", "i64", "isize", "u8", "u16", "u32", "u64", "usize", "bool"}

\* the i32 that represents a value of a type of at most 32 bits
I32Of(value) == FromHalvesI32(value.page, value.rem)

\* UnaryOp.WrapI64: the low 32 bits
WrapI64(value) == I32Of(value)

\* UnaryOp.ExtendI32 / ExtendU32 of an i32
ExtendI32(x) == i64_of(x)

ExtendU32(x) == I64((x \div PageSize) % 65536, x % PageSize)

\* the test of the last branch (lines 2094-2103)
NeedsWrap(fromType, toType) ==
  /\ toType \in SmallTypes
  /\ \/ TypeSize(fromType) > TypeSize(toType)
     \/ /\ TypeSize(fromType) = TypeSize(toType)
        /\ IsSigned(fromType) # IsSigned(toType)

\* convertExpression(expr, fromType, toType, ...) for two integer types: the
\* value of the expression returned, from the value of expr
convertExpression(value, fromType, toType) ==
  IF IsLong(fromType)
  THEN IF ~IsLong(toType)
       THEN IF toType \in SmallTypes
            THEN i64_of(makeSmallIntegerWrap(WrapI64(value), toType))
            ELSE i64_of(WrapI64(value))
       ELSE value
  ELSE IF IsLong(toType)
       THEN IF IsSigned(toType) THEN ExtendI32(I32Of(value)) ELSE ExtendU32(I32Of(value))
       ELSE IF NeedsWrap(fromType, toType)
            THEN i64_of(makeSmallIntegerWrap(I32Of(value), toType))
            ELSE i64_of(I32Of(value))

\* the values converted: those of SampleValues and the bounds of the 32-bit
\* and of some 48-bit values, as far as valid for the source type
ConversionValues(fromType) ==
  LET all == { i64_of(n) : n \in SampleValues \cup {MinI32, MaxI32, 256, 32768, 65536} }
               \cup { I64(32768, 0), I64(65535, 65535), I64(65536, 1), I64(-40000, 65535) }
  IN  CASE fromType = "i64" -> all
        [] fromType = "u64" -> { v \in all : v.page >= 0 }
        [] OTHER -> { v \in all : InValueRange(v, fromType) }

NoConversion == [value |-> i64_new(0), currentType |-> "void"]

\* convertExpression is applied to an expression of the source type
ConvertExpression ==
  /\ converted.currentType = "void"
  /\ converted' = [value |-> convertExpression(conversion.value, conversion.fromType,
                                               conversion.toType),
                   currentType |-> conversion.toType]
  /\ UNCHANGED conversion
  /\ UNCHANGED nonConvVars

(***************************************************************************)
(* Assignments to fields and properties with temporary locals.  The        *)
(* function compiled has the locals p (index 0, an object), i and j        *)
(* (1 and 2, i32) and k (3, i64); temps follow.  A function state is       *)
(* [locals, free]: the native type of every local, and per native type the *)
(* free temps, the one freed last at the end.                              *)
(***************************************************************************)

NativeTypes == {"i32", "i64", "f64"}

NewFunction ==
  [locals |-> <<"i32", "i32", "i32", "i64">>,
   free |-> [t \in NativeTypes |-> <<>>]]

\* Function.addLocal: the new local's index is the number of locals so far
addLocal(fn, type) ==
  [fn |-> [fn EXCEPT !.locals = Append(@, type)], index |-> Len(fn.locals)]

\* Function.getTempLocal: the free temp of the native type freed last, or a
\* new local
getTempLocal(fn, type) ==
  IF fn.free[type] # <<>>
  THEN [fn |-> [fn EXCEPT !.free[type] = SubSeq(@, 1, Len(@) - 1)],
        index |-> fn.free[type][Len(fn.free[type])]]
  ELSE addLocal(fn, type)

\* Function.freeTempLocal
freeTempLocal(fn, index) ==
  [fn EXCEPT !.free[fn.locals[index + 1]] = Append(@, index)]

\* the branch of getAndFreeTempLocal that adds a local, which is free at once
getAndFreeNewLocal(fn, type) ==
  LET added == addLocal(fn, type)
  IN  [fn |-> freeTempLocal(added.fn, added.index), index |-> added.index]

\* Function.getAndFreeTempLocal: the free temp of the native type freed
\* last, which stays free, or a new local that is free at once
getAndFreeTempLocal(fn, type) ==
  IF fn.free[type] # <<>>
  THEN [fn |-> fn, index |-> fn.free[type][Len(fn.free[type])]]
  ELSE getAndFreeNewLocal(fn, type)

\* module.createGetLocal(index, nativeType), createTeeLocal, createStore
createGetLocalOf(index, nativeType) == IR("get_local", nativeType, <<>>, <<>>, index)

createTeeLocal(index, value) == IR("tee_local", None, <<>>, <<value>>, index)

createStore(ptr, value) == IR("store", None, <<>>, <<ptr, value>>, 0)

\* the locals the source expressions name, by native type
LocalOf(type) == IF type = "i64" THEN 3 ELSE 2

\* compileUnaryPostfixExpression of `x++` whose value is consumed, x the
\* local of the index given
compilePostfix(fn, local, type) ==
  LET temp == getTempLocal(fn, type)
      setValue == createSetLocal(local,
                    createBinaryAdd(createGetLocalOf(temp.index, type), createI32(1)))
  IN  [fn |-> freeTempLocal(temp.fn, temp.index),
       expr |-> createBlock(None, << createSetLocal(temp.index, createGetLocalOf(local, type)),
                                     setValue,
                                     createGetLocalOf(temp.index, type) >>)]

\* the value expressions: a literal, the local j (or k), and j++ (or k++)
ValueExpressions == {"literal", "local", "postfix"}

compileValue(fn, value, type) ==
  CASE value = "literal" -> [fn |-> fn, expr |-> createI32(42)]
    [] value = "local"   -> [fn |-> fn, expr |-> createGetLocalOf(LocalOf(type), type)]
    [] value = "postfix" -> compilePostfix(fn, LocalOf(type), type)

\* the target expressions: the local p, and the element access p[i++], which
\* compileElementAccessExpression lowers to a call of the indexed getter
TargetExpressions == {"local", "element"}

compileTarget(fn, target) ==
  CASE target = "local" -> [fn |-> fn, expr |-> createGetLocalOf(0, "i32")]
    [] target = "element" ->
         LET thisArg == createGetLocalOf(0, "i32")
             elementExpression == compilePostfix(fn, 1, "i32")
         IN  [fn |-> elementExpression.fn,
              expr |-> createCall("[]", <<thisArg, elementExpression.expr>>)]

\* compileAssignmentWithValue, case ElementKind.FIELD
compileFieldAssignment(fn, target, valueWithCorrectType, type, tee) ==
  LET targetExpr == compileTarget(fn, target)
      tempLocal == getAndFreeTempLocal(targetExpr.fn, type)
  IN  IF tee
      THEN [fn |-> tempLocal.fn, temp |-> tempLocal.index,
            expr |-> createBlock(None,
                       << createSetLocal(tempLocal.index, valueWithCorrectType),
                          createStore(targetExpr.expr, createGetLocalOf(tempLocal.index, type)),
                          createGetLocalOf(tempLocal.index, type) >>)]
      ELSE [fn |-> targetExpr.fn, temp |-> -1,
            expr |-> createStore(targetExpr.expr, valueWithCorrectType)]

\* compileAssignmentWithValue, case ElementKind.PROPERTY with an instance
\* setter and getter; type is the getter's return type
compilePropertyAssignment(fn, target, valueWithCorrectType, type, tee) ==
  LET thisArg == compileTarget(fn, target)
      tempLocal == getAndFreeTempLocal(thisArg.fn, type)
  IN  IF tee
      THEN [fn |-> tempLocal.fn, temp |-> tempLocal.index,
            expr |-> createBlock(None,
                       << createCall("set", << createTeeLocal(tempLocal.index, thisArg.expr),
                                               valueWithCorrectType >>),
                          createCall("get", << createGetLocalOf(tempLocal.index, type) >>) >>)]
      ELSE [fn |-> thisArg.fn, temp |-> -1,
            expr |-> createCall("set", << thisArg.expr, valueWithCorrectType >>)]

\* the index expressions of an element access: a literal, the local i, i++
IndexExpressions == {"literal", "local", "postfix"}

compileIndex(fn, index) ==
  CASE index = "literal" -> [fn |-> fn, expr |-> createI32(7)]
    [] index = "local"   -> [fn |-> fn, expr |-> createGetLocalOf(1, "i32")]
    [] index = "postfix" -> compilePostfix(fn, 1, "i32")

\* compileAssignmentWithValue, case ElementKind.FUNCTION_PROTOTYPE of an
\* element access whose class has both @operator("[]") and @operator("[]=");
\* the target is a reference (i32) and the index is compiled as an i32
compileIndexedAssignment(fn, target, index, valueWithCorrectType, tee) ==
  LET targetExpr == compileTarget(fn, target)
      elementExpr == compileIndex(targetExpr.fn, index)
      tempLocalTarget == getTempLocal(elementExpr.fn, "i32")
      tempLocalElement == getAndFreeTempLocal(tempLocalTarget.fn, "i32")
  IN  IF tee
      THEN [fn |-> freeTempLocal(tempLocalElement.fn, tempLocalTarget.index),
            temp |-> tempLocalTarget.index,
            expr |-> createBlock(None,
                       << createCall("[]=", << createTeeLocal(tempLocalTarget.index, targetExpr.expr),
                                               createTeeLocal(tempLocalElement.index, elementExpr.expr),
                                               valueWithCorrectType >>),
                          createCall("[]", << createGetLocalOf(tempLocalTarget.index, "i32"),
                                              createGetLocalOf(tempLocalElement.index, "i32") >>) >>)]
      ELSE [fn |-> elementExpr.fn, temp |-> -1,
            expr |-> createCall("[]=", << targetExpr.expr, elementExpr.expr,
                                          valueWithCorrectType >>)]

\* compileAssignment: the value is compiled first, then the assignment
compileAssignment(fn, a) ==
  LET valueExpr == compileValue(fn, a.value, a.type)
      assigned == CASE a.element = "field" ->
                         compileFieldAssignment(valueExpr.fn, a.target, valueExpr.expr,
                                                a.type, a.tee)
                    [] a.element = "property" ->
                         compilePropertyAssignment(valueExpr.fn, a.target, valueExpr.expr,
                                                   a.type, a.tee)
                    [] a.element = "indexed" ->
                         compileIndexedAssignment(valueExpr.fn, a.target, a.index,
                                                  valueExpr.expr, a.tee)
  IN  [fn |-> assigned.fn, temp |-> assigned.temp, expr |-> assigned.expr,
       value |-> valueExpr.expr]

\* The execution of an expression on a machine state m = [locals, stores,
\* calls, value]: the locals' values, the stores and the calls made so far,
\* and the value of the expression executed last.  The indexed getter []
\* returns the object at 1000 + its index, get the negative of its receiver,
\* id its argument.
SetLocalValue(m, index, value) ==
  [m EXCEPT !.locals = [j \in 1..(IF Len(m.locals) > index THEN Len(m.locals) ELSE index + 1) |->
                          IF j = index + 1 THEN value
                          ELSE IF j <= Len(m.locals) THEN m.locals[j] ELSE 0]]

GetLocalValue(m, index) == IF index + 1 <= Len(m.locals) THEN m.locals[index + 1] ELSE 0

RECURSIVE Evaluate(_, _), EvaluateAll(_, _, _)
Evaluate(expr, m) ==
  CASE expr.op = "i32.const" -> [m EXCEPT !.value = expr.n]
    [] expr.op = "get_local" -> [m EXCEPT !.value = GetLocalValue(m, expr.n)]
    [] expr.op \in {"set_local", "tee_local"} ->
         LET m1 == Evaluate(expr.kids[1], m)
         IN  SetLocalValue(m1, expr.n, m1.value)
    [] expr.op = "i32.add" ->
         LET m1 == Evaluate(expr.kids[1], m)
             m2 == Evaluate(expr.kids[2], m1)
         IN  [m2 EXCEPT !.value = m1.value + m2.value]
    [] expr.op = "block" -> EvaluateAll(expr.kids, m, <<>>).m
    [] expr.op = "i64.ne" ->
         LET m1 == Evaluate(expr.kids[1], m)
         IN  [m1 EXCEPT !.value = IF m1.value # 0 THEN 1 ELSE 0]
    [] expr.op = "if" ->
         LET m1 == Evaluate(expr.kids[1], m)
         IN  IF m1.value # 0 THEN Evaluate(expr.kids[2], m1) ELSE Evaluate(expr.kids[3], m1)
    [] expr.op = "store" ->
         LET r == EvaluateAll(expr.kids, m, <<>>)
         IN  [r.m EXCEPT !.stores = Append(@, r.values), !.value = 0]
    [] expr.op = "call" ->
         LET r == EvaluateAll(expr.kids, m, <<>>)
         IN  [r.m EXCEPT !.calls = Append(@, <<expr.label>> \o r.values),
                         !.value = CASE expr.label = "[]" -> 1000 + r.values[2]
                                     [] expr.label = "get" -> 0 - r.values[1]
                                     [] expr.label = "id" -> r.values[1]
                                     [] OTHER -> 0]
    [] OTHER -> m

\* the operands (or the children of a block) in order
EvaluateAll(exprs, m, values) ==
  IF exprs = <<>> THEN [m |-> m, values |-> values]
  ELSE LET m1 == Evaluate(Head(exprs), m)
       IN  EvaluateAll(Tail(exprs), m1, Append(values, m1.value))

Machine(locals) == [locals |-> locals, stores |-> <<>>, calls |-> <<>>, value |-> 0]

NoAssignmentRun == Machine(<<>>)

NoAssignment ==
  [element |-> "field", target |-> "local", index |-> "literal", value |-> "literal",
   type |-> "i32", tee |-> FALSE]

\* the number of temps the statements before the assignment left free
MaxEarlierTemps == 2

\* an earlier statement of the function used a temp of the type and freed it
CompileEarlierStatement ==
  /\ assignPc = "fresh"
  /\ Len(assignFn.locals) < Len(NewFunction.locals) + MaxEarlierTemps
  /\ \E type \in {"i32", "i64"} :
       assignFn' = compilePostfix(assignFn, LocalOf(type), type).fn
  /\ UNCHANGED <<assignPc, assignment, assignExpr, assignValue, assignTemp, assignLocals,
                 assignRun>>
  /\ UNCHANGED nonAssignVars

\* compileAssignment of `target.member = value`, the member a field
CompileFieldAssignment ==
  /\ assignPc = "fresh"
  /\ assignment.element = "field"
  /\ LET c == compileAssignment(assignFn, assignment)
     IN  /\ assignFn' = c.fn
         /\ assignExpr' = c.expr
         /\ assignValue' = c.value
         /\ assignTemp' = c.temp
  /\ assignPc' = "compiled"
  /\ UNCHANGED <<assignment, assignLocals, assignRun>>
  /\ UNCHANGED nonAssignVars

\* compileAssignment of `target.member = value`, the member a property
CompilePropertyAssignment ==
  /\ assignPc = "fresh"
  /\ assignment.element = "property"
  /\ LET c == compileAssignment(assignFn, assignment)
     IN  /\ assignFn' = c.fn
         /\ assignExpr' = c.expr
         /\ assignValue' = c.value
         /\ assignTemp' = c.temp
  /\ assignPc' = "compiled"
  /\ UNCHANGED <<assignment, assignLocals, assignRun>>
  /\ UNCHANGED nonAssignVars

\* compileAssignment of `target[index] = value`
CompileIndexedAssignment ==
  /\ assignPc = "fresh"
  /\ assignment.element = "indexed"
  /\ LET c == compileAssignment(assignFn, assignment)
     IN  /\ assignFn' = c.fn
         /\ assignExpr' = c.expr
         /\ assignValue' = c.value
         /\ assignTemp' = c.temp
  /\ assignPc' = "compiled"
  /\ UNCHANGED <<assignment, assignLocals, assignRun>>
  /\ UNCHANGED nonAssignVars

\* the function runs and reaches the assignment
RunAssignment ==
  /\ assignPc = "compiled"
  /\ assignRun' = Evaluate(assignExpr, Machine(assignLocals))
  /\ assignPc' = "ran"
  /\ UNCHANGED <<assignFn, assignment, assignExpr, assignValue, assignTemp, assignLocals>>
  /\ UNCHANGED nonAssignVars

(***************************************************************************)
(* Logical && and ||.  The function compiled has the i32 locals a and b    *)
(* (index 0 and 1) and the i64 locals c and d (2 and 3); temps follow.     *)
(* The left operand is over a (or c), the right operand over b (or d).     *)
(***************************************************************************)

LogicFunction ==
  [locals |-> <<"i32", "i32", "i64", "i64">>,
   free |-> [t \in NativeTypes |-> <<>>]]

\* module.createBinary(BinaryOp.NeI64, expr, module.createI64(0))
createNeI64(expr) == IR("i64.ne", None, <<>>, <<expr, createI32(0)>>, 0)

\* makeIsTrueish
makeIsTrueish(expr, type) == IF type = "i64" THEN createNeI64(expr) ELSE expr

\* module.cloneExpression(expr, true, 0) made of every expression
cloneExpressionAny(expr) == expr

\* module.cloneExpression(expr, true, 0): a constant or a read of a local or
\* a global is cloned; of any other expression the result is 0 (createNop
\* stands for 0)
cloneExpression(expr) ==
  IF expr.op \in {"i32.const", "get_local", "get_global"} THEN expr ELSE createNop

\* the operand expressions: a literal, a local, x++ of that local, and a call
\* id(x) of a function that returns its argument
OperandExpressions == {"zero", "literal", "local", "postfix", "call"}

compileOperand(fn, operand, local, type) ==
  CASE operand = "zero"    -> [fn |-> fn, expr |-> createI32(0)]
    [] operand = "literal" -> [fn |-> fn, expr |-> createI32(9)]
    [] operand = "local"   -> [fn |-> fn, expr |-> createGetLocalOf(local, type)]
    [] operand = "postfix" -> compilePostfix(fn, local, type)
    [] operand = "call"    ->
         [fn |-> fn, expr |-> createCall("id", <<createGetLocalOf(local, type)>>)]

LeftLocal(type) == IF type = "i64" THEN 2 ELSE 0

RightLocal(type) == IF type = "i64" THEN 3 ELSE 1

\* compileBinaryExpression, cases Token.AMPERSAND_AMPERSAND and Token.BAR_BAR
compileLogical(fn, e) ==
  LET left == compileOperand(fn, e.left, LeftLocal(e.type), e.type)
      right == compileOperand(left.fn, e.right, RightLocal(e.type), e.type)
      expr == cloneExpression(left.expr)
      cloned == expr.op # "nop"
      tempLocal == getAndFreeTempLocal(right.fn, e.type)
      teed == IF cloned THEN left.expr ELSE createTeeLocal(tempLocal.index, left.expr)
      condition == makeIsTrueish(teed, e.type)
      preserved == IF cloned THEN expr ELSE createGetLocalOf(tempLocal.index, e.type)
  IN  [fn |-> IF cloned THEN right.fn ELSE tempLocal.fn,
       temp |-> IF cloned THEN -1 ELSE tempLocal.index,
       left |-> left.expr,
       right |-> right.expr,
       expr |-> IF e.operator = "&&"
                THEN createIf(condition, right.expr, preserved)
                ELSE createIf(condition, preserved, right.expr)]

NoLogical == [operator |-> "&&", left |-> "zero", right |-> "zero", type |-> "i32"]

\* an earlier statement of the function used a temp of the type and freed it
CompileEarlierLogicStatement ==
  /\ logicPc = "fresh"
  /\ Len(logicFn.locals) < Len(LogicFunction.locals) + MaxEarlierTemps
  /\ \E type \in {"i32", "i64"} :
       logicFn' = compilePostfix(logicFn, RightLocal(type), type).fn
  /\ UNCHANGED <<logicPc, logical, logicLeft, logicRight, logicExpr, logicTemp, logicLocals,
                 logicRun>>
  /\ UNCHANGED nonLogicVars

\* compileBinaryExpression of `left && right`
CompileLogicalAnd ==
  /\ logicPc = "fresh"
  /\ logical.operator = "&&"
  /\ LET c == compileLogical(logicFn, logical)
     IN  /\ logicFn' = c.fn
         /\ logicLeft' = c.left
         /\ logicRight' = c.right
         /\ logicExpr' = c.expr
         /\ logicTemp' = c.temp
  /\ logicPc' = "compiled"
  /\ UNCHANGED <<logical, logicLocals, logicRun>>
  /\ UNCHANGED nonLogicVars

\* compileBinaryExpression of `left || right`
CompileLogicalOr ==
  /\ logicPc = "fresh"
  /\ logical.operator = "||"
  /\ LET c == compileLogical(logicFn, logical)
     IN  /\ logicFn' = c.fn
         /\ logicLeft' = c.left
         /\ logicRight' = c.right
         /\ logicExpr' = c.expr
         /\ logicTemp' = c.temp
  /\ logicPc' = "compiled"
  /\ UNCHANGED <<logical, logicLocals, logicRun>>
  /\ UNCHANGED nonLogicVars

\* the function runs and reaches the expression
RunLogical ==
  /\ logicPc = "compiled"
  /\ logicRun' = Evaluate(logicExpr, Machine(logicLocals))
  /\ logicPc' = "ran"
  /\ UNCHANGED <<logicFn, logical, logicLeft, logicRight, logicExpr, logicTemp, logicLocals>>
  /\ UNCHANGED nonLogicVars

(***************************************************************************)
(* currentEnum.  A program of three enums; the initializer of a value is   *)
(* absent ("none") or a property access E.X that reads a value of the enum *)
(* E.  The compiler state c is [currentEnum, compiled, values, calls].     *)
(***************************************************************************)

EnumNames == {"A", "B", "C"}

MaxEnumValues == 2

RECURSIVE compileEnum(_, _, _), compileEnumValues(_, _, _, _)

\* compilePropertyAccessExpression, case ElementKind.ENUMVALUE: the enum of
\* the value read is compiled first
compileEnumValueAccess(c, program, enum) == compileEnum(c, program, enum)

\* the loop of compileEnum over the values of the enum, from value i on
compileEnumValues(c, program, element, i) ==
  IF i > Len(program[element]) THEN c
  ELSE LET c1 == [c EXCEPT !.values = Append(@, [enum |-> element, index |-> i,
                                                  currentEnum |-> c.currentEnum])]
           c2 == IF program[element][i] = "none" THEN c1
                 ELSE compileEnumValueAccess(c1, program, program[element][i])
       IN  compileEnumValues(c2, program, element, i + 1)

\* compileEnum, as far as it acts on the flag COMPILED and on currentEnum
compileEnum(c, program, element) ==
  IF element \in c.compiled
  THEN [c EXCEPT !.calls = Append(@, [enum |-> element, before |-> c.currentEnum,
                                      after |-> c.currentEnum])]
  ELSE LET c1 == [c EXCEPT !.compiled = @ \cup {element}, !.currentEnum = element]
           c2 == compileEnumValues(c1, program, element, 1)
       IN  [c2 EXCEPT !.currentEnum = None,
                      !.calls = Append(@, [enum |-> element, before |-> c.currentEnum,
                                           after |-> None])]

\* compileEnumDeclaration of the declaration of an enum
CompileEnumDeclaration(element) ==
  /\ ctxPc = "compiling"
  /\ element \notin ctxVisited
  /\ LET c == compileEnum([currentEnum |-> currentEnum, compiled |-> ctxCompiled,
                           values |-> ctxValues, calls |-> ctxCalls],
                          enumProgram, element)
     IN  /\ currentEnum' = c.currentEnum
         /\ ctxCompiled' = c.compiled
         /\ ctxValues' = c.values
         /\ ctxCalls' = c.calls
  /\ ctxVisited' = ctxVisited \cup {element}
  /\ UNCHANGED <<ctxPc, enumProgram>>
  /\ UNCHANGED nonCtxVars

(***************************************************************************)
(* Inlined constants.  The value of a constant of a type of at most 32     *)
(* bits is the i32 that represents it, that of a 64-bit constant an I64.   *)
(* On a 32-bit target isize and usize have 32 bits.                        *)
(***************************************************************************)

\* Type.size
IntegerSize(type) == IF IsLong(type) THEN 64 ELSE TypeSize(type)

\* TypeFlags.SIGNED of every integer type
IsSignedInteger(type) == IsSigned(type) \/ type = "i64"

\* the constant value compileGlobal (lines 601-616) and
\* compileVariableStatement (1607-1617) cache from the constant initializer:
\* i64_new(value, 0) of an i32 constant, i64_new(low, high) of an i64 one
CachedIntegerValue(type, value) == IF IsLong(type) THEN value ELSE ExtendU32(value)

\* Type.computeSmallIntegerShift(Type.i32) and computeSmallIntegerMask(Type.i32)
computeSmallIntegerShift(type) == 32 - TypeSize(type)

computeSmallIntegerMask(type) ==
  IF TypeSize(type) = 32 THEN -1 ELSE Pow2(TypeSize(type)) - 1

\* the condition of the switch of compileInlineConstant
Precomputes(elementType, contextualType, retainType) ==
  /\ ~retainType
  /\ elementType \in IntegerTypes
  /\ contextualType \in IntegerTypes
  /\ IntegerSize(elementType) < IntegerSize(contextualType)

\* compileInlineConstant of an element with an integer constant value
compileInlineConstantOfType(element, contextualType, retainType) ==
  LET currentType == IF Precomputes(element.type, contextualType, retainType)
                     THEN contextualType ELSE element.type
      low == I32Of(i64_low(element.constantIntegerValue))
      shift == computeSmallIntegerShift(element.type)
      mask == computeSmallIntegerMask(element.type)
  IN  CASE currentType \in {"i8", "i16"} ->
             [op |-> "i32.const", value |-> ShrI32(ShlI32(low, shift), shift),
              currentType |-> currentType]
        [] currentType \in {"u8", "u16", "bool"} ->
             [op |-> "i32.const", value |-> AndI32(low, mask), currentType |-> currentType]
        [] currentType \in {"i32", "u32", "isize", "usize"} ->
             [op |-> "i32.const", value |-> low, currentType |-> currentType]
        [] currentType \in {"i64", "u64"} ->
             [op |-> "i64.const", value |-> element.constantIntegerValue,
              currentType |-> currentType]

\* the values of the constants declared
InlineValues(type) ==
  IF IsLong(type)
  THEN { v \in {i64_of(-1), i64_of(0), i64_of(1), I64(65536, 1), I64(-40000, 65535)} :
           type = "i64" \/ v.page >= 0 }
  ELSE { v \in SampleValues \cup {MinI32, MaxI32} : IsValidValue(v, type) }

NoInlineElement == [type |-> "i32", value |-> 0, constantIntegerValue |-> i64_of(0)]

NoInlineResult == [op |-> "none", value |-> 0, currentType |-> "void"]

\* compileGlobal or compileVariableStatement of a const with a constant
\* initializer: the value is cached and the element becomes INLINED
CompileConstant ==
  /\ inlinePc = "declared"
  /\ inlineElement' = [inlineElement EXCEPT !.constantIntegerValue =
                         CachedIntegerValue(inlineElement.type, inlineElement.value)]
  /\ inlinePc' = "cached"
  /\ UNCHANGED <<inlineRead, inlineResult>>
  /\ UNCHANGED nonInlineVars

\* compileIdentifierExpression of a read of the constant
CompileInlineConstant ==
  /\ inlinePc = "cached"
  /\ inlineResult' = compileInlineConstantOfType(inlineElement, inlineRead.contextualType,
                                                 inlineRead.retainType)
  /\ inlinePc' = "read"
  /\ UNCHANGED <<inlineElement, inlineRead>>
  /\ UNCHANGED nonInlineVars

(***************************************************************************)
(* Initializers performed in the start function.  The source declares a    *)
(* global g, an enum E and a function f(a: i32, b: i32) whose body reads g *)
(* and values of E.  The compiler state is [functions, currentFunction,    *)
(* compiled, body, globals, warnings]: the locals of the start function    *)
(* and of f, the function being compiled, the elements with the COMPILED   *)
(* flag, startFunctionBody with the function each entry was compiled in,  *)
(* the globals of the module and the number of warnings.                   *)
(***************************************************************************)

MaxReferences == 2

\* the initializers: 9, 1 + 2, id(9) and id(9) && 7; "none" for an enum value
\* without one
StartInitializers == {"literal", "sum", "call", "logical"}

\* new Function(...) of the start function, which has no parameters, and f
StartFunctionInstance == [locals |-> <<>>, free |-> [t \in NativeTypes |-> <<>>]]

FunctionInstance == [locals |-> <<"i32", "i32">>, free |-> [t \in NativeTypes |-> <<>>]]

\* the compiler after the constructor and compile() line 244-251
NewStartCompiler ==
  [functions |-> [f \in {"start", "f"} |->
                    IF f = "start" THEN StartFunctionInstance ELSE FunctionInstance],
   currentFunction |-> "start",
   compiled |-> {},
   body |-> <<>>,
   globals |-> {},
   warnings |-> 0]

NoStartProgram ==
  [constant |-> FALSE, initializer |-> "literal", values |-> <<>>, references |-> <<>>]

\* compileExpression(initializer, type) in the current function: the locals
\* an expression needs are those of this.currentFunction
compileInitializer(c, initializer) ==
  LET fn == c.functions[c.currentFunction]
      left == createCall("id", <<createI32(9)>>)
      right == createI32(7)
      expr == cloneExpression(left)
      tempLocal == getAndFreeTempLocal(fn, "i32")
  IN  CASE initializer = "literal" -> [c |-> c, expr |-> createI32(9)]
        [] initializer = "sum" ->
             [c |-> c, expr |-> createBinaryAdd(createI32(1), createI32(2))]
        [] initializer = "call" -> [c |-> c, expr |-> left]
        [] initializer = "logical" ->
             IF expr.op # "nop"
             THEN [c |-> c, expr |-> createIf(makeIsTrueish(left, "i32"), right, expr)]
             ELSE [c |-> [c EXCEPT !.functions[c.currentFunction] = tempLocal.fn],
                   expr |-> createIf(
                     makeIsTrueish(createTeeLocal(tempLocal.index, left), "i32"),
                     right,
                     createGetLocalOf(tempLocal.index, "i32"))]

\* this.startFunctionBody.push(expr)
pushStart(c, expr) ==
  [c EXCEPT !.body = Append(@, [function |-> c.currentFunction, expr |-> expr])]

\* compileGlobal of g, lines 477-644
compileGlobalInStart(c, program) ==
  IF "g" \in c.compiled
  THEN c
  ELSE LET c1 == [c EXCEPT !.compiled = @ \cup {"g"}]
           init == compileInitializer(c1, program.initializer)
           precomputed == IF ~IsConst(init.expr) /\ program.constant
                          THEN precomputeExpressionRef(init.expr) ELSE init.expr
           initializeInStart == ~IsConst(precomputed)
           c2 == IF initializeInStart /\ program.constant
                 THEN [init.c EXCEPT !.warnings = @ + 1] ELSE init.c
       IN  IF initializeInStart
           THEN pushStart([c2 EXCEPT !.globals = @ \cup {"g"}],
                          createSetGlobal("g", precomputed))
           ELSE [c2 EXCEPT !.globals = @ \cup {"g"}]

\* the internal name of the i-th value of E
EnumValueName(i) == <<"E.X", "E.Y">>[i]

RECURSIVE compileEnumValuesInStart(_, _, _, _)
\* the loop of compileEnum over the values, lines 660-743; previous is
\* "none", "inlined" or "mutable"
compileEnumValuesInStart(c, values, i, previous) ==
  IF i > Len(values)
  THEN c
  ELSE LET init == IF values[i] = "none"
                   THEN [c |-> c,
                         expr |-> IF previous = "mutable"
                                  THEN createBinaryAdd(createGetGlobal(EnumValueName(i - 1)),
                                                       createI32(1))
                                  ELSE createI32(0)]
                   ELSE compileInitializer(c, values[i])
           precomputed == IF values[i] # "none" /\ ~IsConst(init.expr)
                          THEN precomputeExpressionRef(init.expr) ELSE init.expr
           initInStart == ~IsConst(precomputed)
           c1 == [init.c EXCEPT !.globals = @ \cup {EnumValueName(i)}]
           c2 == IF initInStart
                 THEN pushStart(c1, createSetGlobal(EnumValueName(i), precomputed))
                 ELSE c1
       IN  compileEnumValuesInStart(c2, values, i + 1,
                                    IF initInStart THEN "mutable" ELSE "inlined")

\* compileEnum of E, lines 655-746
compileEnumInStart(c, program) ==
  IF "E" \in c.compiled
  THEN c
  ELSE compileEnumValuesInStart([c EXCEPT !.compiled = @ \cup {"E"}],
                                program.values, 1, "none")

RECURSIVE compileReferences(_, _, _)
\* the statements of the body of f: a read of g (compileIdentifierExpression,
\* lines 4335-4347) compiles g on demand, an access to a value of E
\* (compilePropertyAccessExpression, lines 4726-4735) compiles E
compileReferences(c, program, i) ==
  IF i > Len(program.references)
  THEN c
  ELSE compileReferences(
         IF program.references[i] = "g"
         THEN compileGlobalInStart(c, program)
         ELSE compileEnumInStart(c, program),
         program, i + 1)

\* compileFunction of f, lines 832-850
compileFunctionInStart(c, program) ==
  IF "f" \in c.compiled
  THEN c
  ELSE LET previousFunction == c.currentFunction
           c1 == [c EXCEPT !.compiled = @ \cup {"f"}, !.currentFunction = "f"]
           c2 == compileReferences(c1, program, 1)
       IN  [c2 EXCEPT !.currentFunction = previousFunction]

\* compileSource, case NodeKind.VARIABLE: compileGlobalDeclaration
CompileGlobalDeclaration ==
  /\ startPc = "sources"
  /\ startTodo # <<>>
  /\ Head(startTodo) = "g"
  /\ startCompiler' = compileGlobalInStart(startCompiler, startProgram)
  /\ startTodo' = Tail(startTodo)
  /\ UNCHANGED <<startPc, startProgram, startLocals>>
  /\ UNCHANGED nonStartVars

\* compileSource, case NodeKind.ENUMDECLARATION: compileEnumDeclaration
CompileEnumInSource ==
  /\ startPc = "sources"
  /\ startTodo # <<>>
  /\ Head(startTodo) = "E"
  /\ startCompiler' = compileEnumInStart(startCompiler, startProgram)
  /\ startTodo' = Tail(startTodo)
  /\ UNCHANGED <<startPc, startProgram, startLocals>>
  /\ UNCHANGED nonStartVars

\* compileSource, case NodeKind.FUNCTIONDECLARATION: compileFunctionDeclaration
CompileFunctionInSource ==
  /\ startPc = "sources"
  /\ startTodo # <<>>
  /\ Head(startTodo) = "f"
  /\ startCompiler' = compileFunctionInStart(startCompiler, startProgram)
  /\ startTodo' = Tail(startTodo)
  /\ UNCHANGED <<startPc, startProgram, startLocals>>
  /\ UNCHANGED nonStartVars

\* compile(), lines 261-275: the start function is added with the
\* additional locals of the start function instance
CompileStartFunction ==
  /\ startPc = "sources"
  /\ startTodo = <<>>
  /\ startLocals' = Len(startCompiler.functions["start"].locals)
  /\ startPc' = "done"
  /\ UNCHANGED <<startProgram, startTodo, startCompiler>>
  /\ UNCHANGED nonStartVars

(***************************************************************************)
(* Local variable statements.  A declaration is [name, type, initializer]: *)
(* type is "i32", "Missing" (a type that does not resolve) or "none" (not  *)
(* annotated); initializer is "none", "literal" (9), "sum" (1 + 2),        *)
(* "call" (id(9)) or "void" (a call of a void function).  The function     *)
(* compiled has one parameter p.                                           *)
(***************************************************************************)

MaxDeclarators == 3

DeclaratorNames == <<"a", "b", "c">>

NewVarFunction == [locals |-> <<"p">>, scopedLocals |-> {}]

NoVarResult == [expr |-> createNop, errors |-> 0, warnings |-> 0]

\* compileExpression(declaration.initializer, ...)
compileDeclaratorInitializer(initializer) ==
  CASE initializer = "literal" -> createI32(9)
    [] initializer = "sum"     -> createBinaryAdd(createI32(1), createI32(2))
    [] initializer = "call"    -> createCall("id", <<createI32(9)>>)
    [] initializer = "void"    -> createCall("log", <<>>)
    [] initializer = "none"    -> createNop

\* Function.addLocal(type, name), and flow.addScopedLocal(name, type, ...)
\* which also records the slot under the name in the scoped locals
addNamedLocal(fn, name, scoped) ==
  [locals |-> Append(fn.locals, name),
   scopedLocals |-> IF scoped THEN fn.scopedLocals \cup {<<name, Len(fn.locals)>>}
                    ELSE fn.scopedLocals]

\* the slot a name resolves to: the scoped local if there is one, else the
\* function's local of that name
SlotOf(fn, name) ==
  IF \E l \in fn.scopedLocals : l[1] = name
  THEN (CHOOSE l \in fn.scopedLocals : l[1] = name)[2]
  ELSE IF \E k \in DOMAIN fn.locals : fn.locals[k] = name
       THEN (CHOOSE k \in DOMAIN fn.locals : fn.locals[k] = name) - 1
       ELSE -2

\* the end of compileVariableStatement, lines 1664-1669
unwrapInitializers(initializers) ==
  IF Len(initializers) = 0 THEN createNop
  ELSE IF Len(initializers) = 1 THEN initializers[1]
  ELSE createBlock(NoLabel, initializers)

RECURSIVE compileDeclarations(_, _, _)
\* the loop of compileVariableStatement over the declarations of a local
\* variable statement, lines 1567-1663; st is [fn, initializers, errors,
\* warnings]
compileDeclarations(st, statement, i) ==
  IF i > Len(statement.declarations)
  THEN [fn |-> st.fn, expr |-> unwrapInitializers(st.initializers),
        errors |-> st.errors, warnings |-> st.warnings]
  ELSE
    LET declaration == statement.declarations[i]
        name == declaration.name
        compiled == compileDeclaratorInitializer(declaration.initializer)
        init == IF statement.kind = "const" /\ declaration.initializer # "none"
                THEN precomputeExpressionRef(compiled) ELSE compiled
        failed == [st EXCEPT !.errors = @ + 1]
        warned == IF statement.kind = "const" /\ declaration.initializer # "none"
                  THEN [st EXCEPT !.warnings = @ + 1]
                  ELSE IF statement.kind = "const"
                       THEN [st EXCEPT !.errors = @ + 1]
                       ELSE st
        added == addNamedLocal(st.fn, name, statement.kind = "let")
        assigned == IF declaration.initializer # "none"
                    THEN Append(st.initializers, createSetLocal(SlotOf(added, name), init))
                    ELSE st.initializers
    IN  IF declaration.type = "Missing"
          THEN compileDeclarations(failed, statement, i + 1)
        ELSE IF declaration.type = "none" /\ declaration.initializer \in {"void", "none"}
          THEN compileDeclarations(failed, statement, i + 1)
        ELSE IF statement.kind = "const" /\ declaration.initializer # "none" /\ IsConst(init)
          THEN IF \E l \in st.fn.scopedLocals : l[1] = name
               THEN [fn |-> st.fn, expr |-> createNop,
                     errors |-> st.errors + 1, warnings |-> st.warnings]
               ELSE [fn |-> [st.fn EXCEPT !.scopedLocals = @ \cup {<<name, -1>>}],
                     expr |-> createNop, errors |-> st.errors, warnings |-> st.warnings]
        ELSE compileDeclarations(
               [warned EXCEPT !.fn = added, !.initializers = assigned], statement, i + 1)

\* compileVariableStatement of a statement inside a function
compileVariableStatement(fn, statement) ==
  compileDeclarations([fn |-> fn, initializers |-> <<>>, errors |-> 0, warnings |-> 0],
                      statement, 1)

\* a name declared by an earlier statement is declared again only as a
\* constant (a duplicate of another kind is reported by the function)
NoOtherDuplicate(statement) ==
  \A i \in DOMAIN statement.declarations :
    statement.declarations[i].name = "c" =>
      /\ statement.kind = "const"
      /\ statement.declarations[i].type # "Missing"
      /\ statement.declarations[i].initializer \in {"literal", "sum"}

\* an earlier statement of the block: `const c = 5;`
CompileEarlierConst ==
  /\ varPc = "parsed"
  /\ varFunction = NewVarFunction
  /\ NoOtherDuplicate(varStatement)
  /\ varFunction' =
       compileVariableStatement(varFunction,
         [kind |-> "const",
          declarations |-> <<[name |-> "c", type |-> "i32", initializer |-> "literal"]>>]).fn
  /\ UNCHANGED <<varPc, varStatement, varResult>>
  /\ UNCHANGED nonVarVars

\* compileStatement of the variable statement
CompileVariableStatement ==
  /\ varPc = "parsed"
  /\ LET r == compileVariableStatement(varFunction, varStatement)
     IN  /\ varFunction' = r.fn
         /\ varResult' = [expr |-> r.expr, errors |-> r.errors, warnings |-> r.warnings]
  /\ varPc' = "compiled"
  /\ UNCHANGED varStatement
  /\ UNCHANGED nonVarVars

(***************************************************************************)
(* Division and remainder.  The expression is `left / right`, `left %      *)
(* right`, `a /= right` or `a %= right` over the locals a, b and c of one  *)
(* type; the left operand is a or (a + b), the right operand c or (b + c). *)
(* The lowered expression is evaluated as it is built: a value is an i32,  *)
(* a result is [trap, value].                                              *)
(***************************************************************************)

NoDivision == [operator |-> "/", left |-> "local", right |-> "local"]

NoDivResult == [trap |-> FALSE, value |-> 0]

Value(v) == [trap |-> FALSE, value |-> v]

Trap == [trap |-> TRUE, value |-> 0]

Abs(x) == IF x < 0 THEN 0 - x ELSE x

\* 2^31 or |x|, divided by a divisor of 2 .. 2^31 - 1
MagnitudeDiv(x, ay) ==
  IF x = MinI32
  THEN (MaxI32 \div ay) + (IF MaxI32 % ay = ay - 1 THEN 1 ELSE 0)
  ELSE Abs(x) \div ay

\* BinaryOp.DivI32: signed, truncating; traps on 0 and on the overflow
DivI32(x, y) ==
  CASE y = 0 -> Trap
    [] y = -1 -> IF x = MinI32 THEN Trap ELSE Value(0 - x)
    [] y = 1 -> Value(x)
    [] y = MinI32 -> Value(IF x = MinI32 THEN 1 ELSE 0)
    [] OTHER -> LET m == MagnitudeDiv(x, Abs(y))
                IN  Value(IF (x < 0) = (y < 0) THEN m ELSE 0 - m)

\* BinaryOp.RemI32: the sign of the dividend; traps on 0
RemI32(x, y) ==
  CASE y = 0 -> Trap
    [] y \in {1, -1} -> Value(0)
    [] y = MinI32 -> Value(IF x = MinI32 THEN 0 ELSE x)
    [] OTHER -> Value(x - y * DivI32(x, y).value)

\* unsigned division of a dividend of 2^31 or more (x < 0) by 1 .. 2^31 - 1:
\* by the halves of the dividend
DivHighU32(x, y) ==
  LET h == ((x - MinI32) \div 2) + 1073741824
      l == x % 2
      q0 == h \div y
      r0 == h % y
      carries == r0 >= y - r0 - l
  IN  [q |-> IF carries THEN AddI32(AddI32(q0, q0), 1) ELSE AddI32(q0, q0),
       r |-> IF carries THEN r0 - (y - r0 - l) ELSE r0 + r0 + l]

\* the quotient and the remainder of the operands taken as unsigned
DivRemU32(x, y) ==
  CASE x >= 0 /\ y > 0 -> [q |-> x \div y, r |-> x % y]
    [] x >= 0 /\ y < 0 -> [q |-> 0, r |-> x]
    [] x < 0 /\ y < 0  -> IF x >= y THEN [q |-> 1, r |-> x - y] ELSE [q |-> 0, r |-> x]
    [] x < 0 /\ y > 0  -> DivHighU32(x, y)

\* BinaryOp.DivU32 and BinaryOp.RemU32
DivU32(x, y) == IF y = 0 THEN Trap ELSE Value(DivRemU32(x, y).q)

RemU32(x, y) == IF y = 0 THEN Trap ELSE Value(DivRemU32(x, y).r)

\* the operand expressions: compileIdentifierExpression of a local, and
\* compileBinaryExpression, case Token.PLUS, of two locals in parentheses,
\* which wraps the sum of a small integer type iff wrapSmallIntegers
compileDivOperand(operand, x, y, type, wrapSmallIntegers) ==
  IF operand = "local" THEN x
  ELSE IF type \in SmallTypes /\ wrapSmallIntegers
       THEN makeSmallIntegerWrap(AddI32(x, y), type)
       ELSE AddI32(x, y)

\* the wrapSmallIntegers the operands are compiled with: left with true,
\* right with false (lines 2825-2842, 2919-2936)
WrapsLeftOperand == TRUE

WrapsRightOperand == FALSE

\* compileBinaryExpression, cases Token.SLASH and Token.SLASH_EQUALS, and
\* its tail (lines 3502-3505) with wrapSmallIntegers true
compileDivision(e, locals, type) ==
  LET left == compileDivOperand(e.left, locals.a, locals.b, type, WrapsLeftOperand)
      right == compileDivOperand(e.right, locals.c, locals.b, type, WrapsRightOperand)
      expr == IF IsSigned(type) THEN DivI32(left, right) ELSE DivU32(left, right)
      possiblyOverflows == type \in SmallTypes
  IN  IF possiblyOverflows /\ ~expr.trap
      THEN Value(makeSmallIntegerWrap(expr.value, type))
      ELSE expr

\* compileBinaryExpression, cases Token.PERCENT and Token.PERCENT_EQUALS
compileRemainder(e, locals, type) ==
  LET left == compileDivOperand(e.left, locals.a, locals.b, type, WrapsLeftOperand)
      right == compileDivOperand(e.right, locals.c, locals.b, type, WrapsRightOperand)
  IN  IF IsSigned(type) THEN RemI32(left, right) ELSE RemU32(left, right)

\* compileAssignmentWithValue of a compound assignment: the local a is set
\* unless the value trapped
assignCompound(e, locals, result) ==
  IF e.operator \in {"/=", "%="} /\ ~result.trap
  THEN [locals EXCEPT !.a = result.value]
  ELSE locals

\* `left / right` or `a /= right`
CompileDivision ==
  /\ divPc = "parsed"
  /\ divExpression.operator \in {"/", "/="}
  /\ LET result == compileDivision(divExpression, divLocals, divType)
     IN  /\ divResult' = result
         /\ divAfter' = assignCompound(divExpression, divLocals, result)
  /\ divPc' = "compiled"
  /\ UNCHANGED <<divType, divLocals, divExpression>>
  /\ UNCHANGED nonDivVars

\* `left % right` or `a %= right`
CompileRemainder ==
  /\ divPc = "parsed"
  /\ divExpression.operator \in {"%", "%="}
  /\ LET result == compileRemainder(divExpression, divLocals, divType)
     IN  /\ divResult' = result
         /\ divAfter' = assignCompound(divExpression, divLocals, result)
  /\ divPc' = "compiled"
  /\ UNCHANGED <<divType, divLocals, divExpression>>
  /\ UNCHANGED nonDivVars

(***************************************************************************)
(* Specifications.                                                         *)
(***************************************************************************)
IdleFlow ==
  /\ fnBody = Node("block", <<>>, 0)
  /\ fnReturnsVoid = TRUE
  /\ fnPc = "idle"
  /\ fnBefore = FlowCreate
  /\ fnFlow = FlowCreate
  /\ fnDiag = FALSE

IdleDriver ==
  /\ sources = [main |-> <<>>, lib |-> <<>>, lib2 |-> <<>>]
  /\ noTreeShaking = FALSE
  /\ files = {}
  /\ srcStack = <<>>
  /\ startFunctionBody = <<>>
  /\ compiledElements = {}
  /\ moduleElements = <<>>
  /\ entered = <<>>
  /\ pendingExports = {}

Instance(signature, isInstance, hasBody, body) ==
  [ signature |-> signature,
    flags |-> IF isInstance THEN {"INSTANCE"} ELSE {},
    hasBody |-> hasBody,
    body |-> body,
    trampoline |-> None ]

IdleCall ==
  /\ instances = [n \in {} |-> Instance(Signature(0, 0, FALSE, FALSE), FALSE, FALSE, <<>>)]
  /\ moduleFuncs = <<>>
  /\ calls = {}
  /\ errors = 0
  /\ lastResult = NoResult
  /\ run = NoRun

IdleMem ==
  /\ options = [target |-> "WASM32", noMemory |-> FALSE, memoryBase |-> i64_new(0)]
  /\ memoryOffset = i64_new(0)
  /\ memorySegments = <<>>
  /\ segmentAlignments = <<>>
  /\ stringSegments = <<>>
  /\ stringResults = <<>>
  /\ memPc = "idle"
  /\ heapBase = None
  /\ memory = None

IdleTable ==
  /\ functionTable = <<>>
  /\ functionTableIndex = [f \in Functions |-> NoTableIndex]
  /\ tableCompiled = {}
  /\ tableRequests = <<>>
  /\ tablePc = "idle"

IdleGlobal ==
  /\ global = GlobalElement(FALSE, FALSE, TRUE, None, TRUE, FALSE)
  /\ moduleGlobals = <<>>
  /\ globalStart = <<>>
  /\ globalWarnings = 0
  /\ globalResult = <<>>
  /\ lastRead = NoRead
  /\ globalPc = "idle"

IdleEnum ==
  /\ enumDecl = [isConstant |-> FALSE, isTopLevelExport |-> FALSE, members |-> <<>>]
  /\ enumValues = <<>>
  /\ enumModule = <<>>
  /\ enumStart = <<>>
  /\ enumWarnings = 0
  /\ enumGlobals = <<>>
  /\ enumPc = "idle"

IdleSmall ==
  /\ localType = "i32"
  /\ localValue = 0
  /\ lastStore = NoStore
  /\ stores = 0

IdleLiteral ==
  /\ literal = [value |-> i64_new(0), implicitNegate |-> FALSE, contextualType |-> "i32"]
  /\ literalExpr = NoLiteralExpr

IdleTrav ==
  /\ travNoTreeShaking = FALSE
  /\ travSource = None
  /\ travFiles = {}
  /\ travVisited = {}
  /\ travCompiled = {}

IdleConv ==
  /\ conversion = [fromType |-> "i32", toType |-> "i32", value |-> i64_new(0)]
  /\ converted = NoConversion

IdleAssign ==
  /\ assignPc = "idle"
  /\ assignFn = NewFunction
  /\ assignment = NoAssignment
  /\ assignExpr = createNop
  /\ assignValue = createNop
  /\ assignTemp = -1
  /\ assignLocals = <<>>
  /\ assignRun = NoAssignmentRun

IdleLogic ==
  /\ logicPc = "idle"
  /\ logicFn = LogicFunction
  /\ logical = NoLogical
  /\ logicLeft = createNop
  /\ logicRight = createNop
  /\ logicExpr = createNop
  /\ logicTemp = -1
  /\ logicLocals = <<>>
  /\ logicRun = NoAssignmentRun

IdleCtx ==
  /\ ctxPc = "idle"
  /\ enumProgram = [e \in EnumNames |-> <<>>]
  /\ currentEnum = None
  /\ ctxCompiled = {}
  /\ ctxVisited = {}
  /\ ctxValues = <<>>
  /\ ctxCalls = <<>>

IdleInline ==
  /\ inlinePc = "idle"
  /\ inlineElement = NoInlineElement
  /\ inlineRead = [contextualType |-> "i32", retainType |-> FALSE]
  /\ inlineResult = NoInlineResult

IdleStart ==
  /\ startPc = "idle"
  /\ startProgram = NoStartProgram
  /\ startTodo = <<>>
  /\ startCompiler = NewStartCompiler
  /\ startLocals = 0

IdleVar ==
  /\ varPc = "idle"
  /\ varStatement = [kind |-> "var", declarations |-> <<>>]
  /\ varFunction = NewVarFunction
  /\ varResult = NoVarResult

IdleDiv ==
  /\ divPc = "idle"
  /\ divType = "i32"
  /\ divLocals = [a |-> 0, b |-> 0, c |-> 0]
  /\ divAfter = [a |-> 0, b |-> 0, c |-> 0]
  /\ divExpression = NoDivision
  /\ divResult = NoDivResult

InitFlow ==
  /\ fnBody \in Bodies(MaxNodes)
  /\ fnReturnsVoid \in BOOLEAN
  /\ fnPc = "ready"
  /\ fnBefore = FlowCreate
  /\ fnFlow = FlowCreate
  /\ fnDiag = FALSE
  /\ IdleDriver
  /\ IdleCall
  /\ IdleMem
  /\ IdleTable
  /\ IdleGlobal
  /\ IdleEnum
  /\ IdleSmall
  /\ IdleLiteral
  /\ IdleTrav
  /\ IdleConv
  /\ IdleAssign
  /\ IdleLogic
  /\ IdleCtx
  /\ IdleInline
  /\ IdleStart
  /\ IdleVar
  /\ IdleDiv

NextFlow ==
  \/ CompileFunctionBody
  \/ CompileStatement

InitDriver ==
  /\ \E m \in SourcesOver(MainPool, MaxItems), l \in SourcesOver(LibPool, MaxItems - 1) :
       sources = [main |-> m, lib |-> l, lib2 |-> Lib2Source]
  /\ noTreeShaking \in BOOLEAN
  /\ files = {}
  /\ srcStack = <<>>
  /\ startFunctionBody = <<>>
  /\ compiledElements = {}
  /\ moduleElements = <<>>
  /\ entered = <<>>
  /\ pendingExports = {}
  /\ IdleFlow
  /\ IdleCall
  /\ IdleMem
  /\ IdleTable
  /\ IdleGlobal
  /\ IdleEnum
  /\ IdleSmall
  /\ IdleLiteral
  /\ IdleTrav
  /\ IdleConv
  /\ IdleAssign
  /\ IdleLogic
  /\ IdleCtx
  /\ IdleInline
  /\ IdleStart
  /\ IdleVar
  /\ IdleDiv

NextDriver ==
  \/ CompileEntry
  \/ CompileVariable
  \/ CompileFunctionDeclaration
  \/ CompileTopLevelStatement
  \/ CompileImport
  \/ CompileExportSource
  \/ CompileExportMembers
  \/ LeaveSource

SpecDriver == InitDriver /\ [][NextDriver]_vars

\* compile() runs to completion: no step of the traversal is postponed forever
SpecDriverFair == SpecDriver /\ WF_vars(NextDriver)

SpecFlow == InitFlow /\ [][NextFlow]_vars

\* the bodies of f: empty, a call of f itself (with any number of arguments,
\* valid or not), or a call of g
BodiesOfF(r, k, isInstance) ==
  { <<>> } \cup
  { << Site("f", a, isInstance) >> : a \in 0..(r + k + 1) } \cup
  { << Site("g", a, FALSE) >> : a \in 1..2 }

\* g(a, b = ...) is static and calls f with f's required arguments only
InitCall ==
  /\ \E r \in 0..MaxRequired, k \in 0..MaxOptional, isInstance \in BOOLEAN,
        hasRest \in BOOLEAN, hasBody \in BOOLEAN :
       \E body \in (IF hasBody THEN BodiesOfF(r, k, isInstance) ELSE { <<>> }) :
         instances =
           [ f |-> Instance(Signature(r, r + k, isInstance, hasRest), isInstance, hasBody, body),
             g |-> Instance(Signature(1, 2, FALSE, FALSE), FALSE, TRUE,
                            << Site("f", r, isInstance) >>) ]
  /\ moduleFuncs = <<>>
  /\ calls = {}
  /\ errors = 0
  /\ lastResult = NoResult
  /\ run = NoRun
  /\ IdleFlow
  /\ IdleDriver
  /\ IdleMem
  /\ IdleTable
  /\ IdleGlobal
  /\ IdleEnum
  /\ IdleSmall
  /\ IdleLiteral
  /\ IdleTrav
  /\ IdleConv
  /\ IdleAssign
  /\ IdleLogic
  /\ IdleCtx
  /\ IdleInline
  /\ IdleStart
  /\ IdleVar
  /\ IdleDiv

Sites ==
  { Site(callee, a, hasThis) :
      callee \in Originals, a \in 0..(MaxRequired + MaxOptional + 1), hasThis \in BOOLEAN }

NextCall ==
  \/ \E site \in Sites : CompileCallDirect(site)
  \/ \E site \in Sites : CompileCallIndirect(site)
  \/ \E name \in Originals : CompileFunctionInstance(name)
  \/ \E original \in Originals, N \in (-1)..(MaxOptional + 1) : RunTrampoline(original, N)

SpecCall == InitCall /\ [][NextCall]_vars

\* options.memoryBase is a u32: 0, small values, and values next to 2^32
MemoryBases ==
  { i64_new(0), i64_new(5), i64_new(8), i64_new(65535),
    I64(65535, 1), I64(65535, 65532) }

InitMemory ==
  /\ \E target \in {"WASM32", "WASM64"}, noMemory \in BOOLEAN, memoryBase \in MemoryBases :
       /\ options = [target |-> target, noMemory |-> noMemory, memoryBase |-> memoryBase]
       /\ memoryOffset = InitialMemoryOffset(memoryBase, UsizeByteSize(target))
  /\ memorySegments = <<>>
  /\ segmentAlignments = <<>>
  /\ stringSegments = <<>>
  /\ stringResults = <<>>
  /\ memPc = "compiling"
  /\ heapBase = None
  /\ memory = None
  /\ IdleFlow
  /\ IdleDriver
  /\ IdleCall
  /\ IdleTable
  /\ IdleGlobal
  /\ IdleEnum
  /\ IdleSmall
  /\ IdleLiteral
  /\ IdleTrav
  /\ IdleConv
  /\ IdleAssign
  /\ IdleLogic
  /\ IdleCtx
  /\ IdleInline
  /\ IdleStart
  /\ IdleVar
  /\ IdleDiv

RawLengths == {0, 1, 5}

Alignments == {1, 8, 16}

NextMemory ==
  \/ \E stringValue \in Strings : CompileStaticString(stringValue)
  \/ \E length \in RawLengths, alignment \in Alignments : AddMemorySegment(length, alignment)
  \/ CompileMemory

SpecMemory == InitMemory /\ [][NextMemory]_vars

InitTable ==
  /\ functionTable = <<>>
  /\ functionTableIndex = [f \in Functions |-> NoTableIndex]
  /\ tableCompiled = {}
  /\ tableRequests = <<>>
  /\ tablePc = "compiling"
  /\ IdleFlow
  /\ IdleDriver
  /\ IdleCall
  /\ IdleMem
  /\ IdleGlobal
  /\ IdleEnum
  /\ IdleSmall
  /\ IdleLiteral
  /\ IdleTrav
  /\ IdleConv
  /\ IdleAssign
  /\ IdleLogic
  /\ IdleCtx
  /\ IdleInline
  /\ IdleStart
  /\ IdleVar
  /\ IdleDiv

NextTable ==
  \/ \E func \in Functions : CompileTableFunction(func)
  \/ \E func \in Functions : EnsureFunctionTableEntry(func)

SpecTable == InitTable /\ [][NextTable]_vars

\* a function-typed global is initialized with a function expression, which
\* lowers to the constant of its function table index
InitGlobal ==
  /\ \E isConstant \in BOOLEAN, isDeclared \in BOOLEAN, isTopLevel \in BOOLEAN,
        initializer \in {None} \cup DOMAIN Initializers,
        typeResolves \in BOOLEAN, hasFunctionType \in BOOLEAN :
       /\ isDeclared => initializer = None
       /\ hasFunctionType => initializer = "literal"
       /\ global = GlobalElement(isConstant, isDeclared, isTopLevel, initializer,
                                 typeResolves, hasFunctionType)
  /\ moduleGlobals = <<>>
  /\ globalStart = <<>>
  /\ globalWarnings = 0
  /\ globalResult = <<>>
  /\ lastRead = NoRead
  /\ globalPc = "compiling"
  /\ IdleFlow
  /\ IdleDriver
  /\ IdleCall
  /\ IdleMem
  /\ IdleTable
  /\ IdleEnum
  /\ IdleSmall
  /\ IdleLiteral
  /\ IdleTrav
  /\ IdleConv
  /\ IdleAssign
  /\ IdleLogic
  /\ IdleCtx
  /\ IdleInline
  /\ IdleStart
  /\ IdleVar
  /\ IdleDiv

NextGlobal ==
  \/ CompileGlobal
  \/ \E site \in {"identifier", "property"} : ReadGlobal(site)
  \/ CallThroughGlobal

SpecGlobal == InitGlobal /\ [][NextGlobal]_vars

InitEnum ==
  /\ \E isConstant \in BOOLEAN, isTopLevelExport \in BOOLEAN :
       \E members \in UNION { [1..n -> ValueDeclarations] : n \in 1..MaxMembers } :
         enumDecl = [isConstant |-> isConstant, isTopLevelExport |-> isTopLevelExport,
                     members |-> members]
  /\ enumValues = <<>>
  /\ enumModule = <<>>
  /\ enumStart = <<>>
  /\ enumWarnings = 0
  /\ enumGlobals = <<>>
  /\ enumPc = "declared"
  /\ IdleFlow
  /\ IdleDriver
  /\ IdleCall
  /\ IdleMem
  /\ IdleTable
  /\ IdleGlobal
  /\ IdleSmall
  /\ IdleLiteral
  /\ IdleTrav
  /\ IdleConv
  /\ IdleAssign
  /\ IdleLogic
  /\ IdleCtx
  /\ IdleInline
  /\ IdleStart
  /\ IdleVar
  /\ IdleDiv

NextEnum ==
  \/ CompileEnum
  \/ RunStartFunction

SpecEnum == InitEnum /\ [][NextEnum]_vars

InitSmall ==
  /\ localType \in LocalTypes
  /\ localValue \in {v \in SampleValues : IsValidValue(v, localType)}
  /\ lastStore = NoStore
  /\ stores = 0
  /\ IdleFlow
  /\ IdleDriver
  /\ IdleCall
  /\ IdleMem
  /\ IdleTable
  /\ IdleGlobal
  /\ IdleEnum
  /\ IdleLiteral
  /\ IdleTrav
  /\ IdleConv
  /\ IdleAssign
  /\ IdleLogic
  /\ IdleCtx
  /\ IdleInline
  /\ IdleStart
  /\ IdleVar
  /\ IdleDiv

NextSmall ==
  \/ CompileCompoundAssignment
  \/ CompileUnaryPrefix
  \/ CompileUnaryPostfix

SpecSmall == InitSmall /\ [][NextSmall]_vars

InitLiteral ==
  /\ \E value \in LiteralValues, implicitNegate \in BOOLEAN, contextualType \in ContextualTypes :
       literal = [value |-> value, implicitNegate |-> implicitNegate,
                  contextualType |-> contextualType]
  /\ literalExpr = NoLiteralExpr
  /\ IdleFlow
  /\ IdleDriver
  /\ IdleCall
  /\ IdleMem
  /\ IdleTable
  /\ IdleGlobal
  /\ IdleEnum
  /\ IdleSmall
  /\ IdleTrav
  /\ IdleConv
  /\ IdleAssign
  /\ IdleLogic
  /\ IdleCtx
  /\ IdleInline
  /\ IdleStart
  /\ IdleVar
  /\ IdleDiv

NextLiteral == CompileLiteral

SpecLiteral == InitLiteral /\ [][NextLiteral]_vars

InitTrav ==
  /\ travNoTreeShaking \in BOOLEAN
  /\ travSource = "main"
  /\ travFiles = {"main"}
  /\ travVisited = {}
  /\ travCompiled = {}
  /\ IdleFlow
  /\ IdleDriver
  /\ IdleCall
  /\ IdleMem
  /\ IdleTable
  /\ IdleGlobal
  /\ IdleEnum
  /\ IdleSmall
  /\ IdleLiteral
  /\ IdleConv
  /\ IdleAssign
  /\ IdleLogic
  /\ IdleCtx
  /\ IdleInline
  /\ IdleStart
  /\ IdleVar
  /\ IdleDiv

NextTrav ==
  \/ TraverseDeclaration
  \/ TraverseImport
  \/ TraverseReturn

SpecTrav == InitTrav /\ [][NextTrav]_vars

InitConv ==
  /\ \E fromType \in IntegerTypes, toType \in IntegerTypes :
       \E value \in ConversionValues(fromType) :
         conversion = [fromType |-> fromType, toType |-> toType, value |-> value]
  /\ converted = NoConversion
  /\ IdleFlow
  /\ IdleDriver
  /\ IdleCall
  /\ IdleMem
  /\ IdleTable
  /\ IdleGlobal
  /\ IdleEnum
  /\ IdleSmall
  /\ IdleLiteral
  /\ IdleTrav
  /\ IdleAssign
  /\ IdleLogic
  /\ IdleCtx
  /\ IdleInline
  /\ IdleStart
  /\ IdleVar
  /\ IdleDiv

NextConv == ConvertExpression

SpecConv == InitConv /\ [][NextConv]_vars

InitAssign ==
  /\ assignPc = "fresh"
  /\ assignFn = NewFunction
  /\ \E element \in {"field", "property", "indexed"}, target \in TargetExpressions,
        value \in ValueExpressions, type \in {"i32", "i64"}, tee \in BOOLEAN :
       \E index \in (IF element = "indexed" THEN IndexExpressions ELSE {"literal"}) :
         assignment = [element |-> element, target |-> target, index |-> index,
                       value |-> value, type |-> type, tee |-> tee]
  /\ assignExpr = createNop
  /\ assignValue = createNop
  /\ assignTemp = -1
  /\ \E i \in {1, 2}, j \in {5, 6} : assignLocals = <<500, i, j, 70>>
  /\ assignRun = NoAssignmentRun
  /\ IdleFlow
  /\ IdleDriver
  /\ IdleCall
  /\ IdleMem
  /\ IdleTable
  /\ IdleGlobal
  /\ IdleEnum
  /\ IdleSmall
  /\ IdleLiteral
  /\ IdleTrav
  /\ IdleConv
  /\ IdleLogic
  /\ IdleCtx
  /\ IdleInline
  /\ IdleStart
  /\ IdleVar
  /\ IdleDiv

NextAssign ==
  \/ CompileEarlierStatement
  \/ CompileFieldAssignment
  \/ CompilePropertyAssignment
  \/ CompileIndexedAssignment
  \/ RunAssignment

SpecAssign == InitAssign /\ [][NextAssign]_vars

InitLogic ==
  /\ logicPc = "fresh"
  /\ logicFn = LogicFunction
  /\ \E operator \in {"&&", "||"}, left \in OperandExpressions,
        right \in OperandExpressions, type \in {"i32", "i64"} :
       logical = [operator |-> operator, left |-> left, right |-> right, type |-> type]
  /\ logicLeft = createNop
  /\ logicRight = createNop
  /\ logicExpr = createNop
  /\ logicTemp = -1
  /\ \E x \in {0, 3}, y \in {0, 5} : logicLocals = <<x, y, x, y>>
  /\ logicRun = NoAssignmentRun
  /\ IdleFlow
  /\ IdleDriver
  /\ IdleCall
  /\ IdleMem
  /\ IdleTable
  /\ IdleGlobal
  /\ IdleEnum
  /\ IdleSmall
  /\ IdleLiteral
  /\ IdleTrav
  /\ IdleConv
  /\ IdleAssign
  /\ IdleCtx
  /\ IdleInline
  /\ IdleStart
  /\ IdleVar
  /\ IdleDiv

NextLogic ==
  \/ CompileEarlierLogicStatement
  \/ CompileLogicalAnd
  \/ CompileLogicalOr
  \/ RunLogical

SpecLogic == InitLogic /\ [][NextLogic]_vars

\* the initializers of the values of one enum
EnumInitializers ==
  UNION { [1..n -> {"none"} \cup EnumNames] : n \in 0..MaxEnumValues }

InitCtx ==
  /\ ctxPc = "compiling"
  /\ enumProgram \in [EnumNames -> EnumInitializers]
  /\ currentEnum = None
  /\ ctxCompiled = {}
  /\ ctxVisited = {}
  /\ ctxValues = <<>>
  /\ ctxCalls = <<>>
  /\ IdleFlow
  /\ IdleDriver
  /\ IdleCall
  /\ IdleMem
  /\ IdleTable
  /\ IdleGlobal
  /\ IdleEnum
  /\ IdleSmall
  /\ IdleLiteral
  /\ IdleTrav
  /\ IdleConv
  /\ IdleAssign
  /\ IdleLogic
  /\ IdleInline
  /\ IdleStart
  /\ IdleVar
  /\ IdleDiv

NextCtx == \E element \in EnumNames : CompileEnumDeclaration(element)

SpecCtx == InitCtx /\ [][NextCtx]_vars

InitInline ==
  /\ inlinePc = "declared"
  /\ \E type \in IntegerTypes : \E value \in InlineValues(type) :
       inlineElement = [type |-> type, value |-> value, constantIntegerValue |-> i64_of(0)]
  /\ \E contextualType \in IntegerTypes, retainType \in BOOLEAN :
       inlineRead = [contextualType |-> contextualType, retainType |-> retainType]
  /\ inlineResult = NoInlineResult
  /\ IdleFlow
  /\ IdleDriver
  /\ IdleCall
  /\ IdleMem
  /\ IdleTable
  /\ IdleGlobal
  /\ IdleEnum
  /\ IdleSmall
  /\ IdleLiteral
  /\ IdleTrav
  /\ IdleConv
  /\ IdleAssign
  /\ IdleLogic
  /\ IdleCtx
  /\ IdleStart
  /\ IdleVar
  /\ IdleDiv

NextInline ==
  \/ CompileConstant
  \/ CompileInlineConstant

SpecInline == InitInline /\ [][NextInline]_vars

\* the top-level statements of the source: each of g, E and f at most once,
\* in any order (an element that is not there is compiled on demand only)
SourceStatements ==
  { s \in UNION { [1..n -> {"g", "E", "f"}] : n \in 0..3 } :
      \A i, j \in DOMAIN s : i # j => s[i] # s[j] }

InitStart ==
  /\ startPc = "sources"
  /\ \E constant \in BOOLEAN, initializer \in StartInitializers :
     \E values \in UNION { [1..n -> StartInitializers \cup {"none"}] : n \in 1..MaxEnumValues } :
     \E references \in UNION { [1..n -> {"g", "E"}] : n \in 0..MaxReferences } :
       startProgram = [constant |-> constant, initializer |-> initializer,
                       values |-> values, references |-> references]
  /\ startTodo \in SourceStatements
  /\ startCompiler = NewStartCompiler
  /\ startLocals = 0
  /\ IdleFlow
  /\ IdleDriver
  /\ IdleCall
  /\ IdleMem
  /\ IdleTable
  /\ IdleGlobal
  /\ IdleEnum
  /\ IdleSmall
  /\ IdleLiteral
  /\ IdleTrav
  /\ IdleConv
  /\ IdleAssign
  /\ IdleLogic
  /\ IdleCtx
  /\ IdleInline
  /\ IdleVar
  /\ IdleDiv

NextStart ==
  \/ CompileGlobalDeclaration
  \/ CompileEnumInSource
  \/ CompileFunctionInSource
  \/ CompileStartFunction

SpecStart == InitStart /\ [][NextStart]_vars

\* the declarations of a statement: the names are distinct, an annotated
\* declaration has no void initializer
VarDeclarations ==
  UNION { { [i \in 1..n |-> [name |-> DeclaratorNames[i], type |-> d[i].type,
                             initializer |-> d[i].initializer]] :
              d \in [1..n -> { x \in [type : {"i32", "Missing", "none"},
                                      initializer : {"none", "literal", "sum", "call", "void"}] :
                                 x.initializer = "void" => x.type = "none" }] } :
          n \in 1..MaxDeclarators }

InitVar ==
  /\ varPc = "parsed"
  /\ \E kind \in {"const", "let", "var"}, declarations \in VarDeclarations :
       varStatement = [kind |-> kind, declarations |-> declarations]
  /\ varFunction = NewVarFunction
  /\ varResult = NoVarResult
  /\ IdleFlow
  /\ IdleDriver
  /\ IdleCall
  /\ IdleMem
  /\ IdleTable
  /\ IdleGlobal
  /\ IdleEnum
  /\ IdleSmall
  /\ IdleLiteral
  /\ IdleTrav
  /\ IdleConv
  /\ IdleAssign
  /\ IdleLogic
  /\ IdleCtx
  /\ IdleInline
  /\ IdleStart
  /\ IdleDiv

NextVar ==
  \/ CompileEarlierConst
  \/ CompileVariableStatement

SpecVar == InitVar /\ [][NextVar]_vars

\* the values of the locals
DivValues == {-32768, -128, -1, 0, 1, 2, 127, 255}

InitDiv ==
  /\ divPc = "parsed"
  /\ divType \in LocalTypes
  /\ divLocals \in [a : {v \in DivValues : IsValidValue(v, divType)},
                    b : {v \in DivValues : IsValidValue(v, divType)},
                    c : {v \in DivValues : IsValidValue(v, divType)}]
  /\ \E operator \in {"/", "%", "/=", "%="}, left \in {"local", "sum"},
        right \in {"local", "sum"} :
       /\ operator \in {"/=", "%="} => left = "local"
       /\ divExpression = [operator |-> operator, left |-> left, right |-> right]
  /\ divAfter = divLocals
  /\ divResult = NoDivResult
  /\ IdleFlow
  /\ IdleDriver
  /\ IdleCall
  /\ IdleMem
  /\ IdleTable
  /\ IdleGlobal
  /\ IdleEnum
  /\ IdleSmall
  /\ IdleLiteral
  /\ IdleTrav
  /\ IdleConv
  /\ IdleAssign
  /\ IdleLogic
  /\ IdleCtx
  /\ IdleInline
  /\ IdleStart
  /\ IdleVar

NextDiv ==
  \/ CompileDivision
  \/ CompileRemainder

SpecDiv == InitDiv /\ [][NextDiv]_vars

\* C1: a non-void function compiled without the "must return a value"
\* diagnostic has no execution path that reaches the end of its body without
\* a return or a throw (paths leaving a loop or a switch by break included).
C1_NoDiagnosticMeansNoFallOff ==
  (fnPc = "compiled" /\ ~fnReturnsVoid /\ ~fnDiag) => ~ReachesEnd(fnBody)

\* C2: the start function body lists the initializer assignments of the
\* non-foldable globals and the top-level statements of every compiled source
\* in the order of the source text.
C2_StartBodyInSourceOrder ==
  DriverDone =>
    \A src \in files :
      LET expected == StartEntries(sources[src])
      IN  SelectSeq(startFunctionBody, LAMBDA e : e \in SeqRange(expected)) = expected

\* the operands a call site supplies, and the operand bounds of its callee
SiteOperands(site) == site.numArguments + (IF site.hasThis THEN 1 ELSE 0)

MinOperands(inst) ==
  inst.signature.requiredParameters + (IF Is(inst, "INSTANCE") THEN 1 ELSE 0)

MaxOperands(inst) ==
  inst.signature.numParameters + (IF Is(inst, "INSTANCE") THEN 1 ELSE 0)

DirectCalls == { e \in calls : e.expr.op \in {"call", "call_import"} }

\* the functions of the module with the given name
Added(name) == { i \in DOMAIN moduleFuncs : moduleFuncs[i].name = name }

\* C3: every direct call emitted by makeCallDirect passes exactly as many
\* operands as its callee has parameters (`this` included): a call supplying
\* all arguments targets the original with maxOperands operands; a call
\* supplying fewer targets `<original>|trampoline` with maxOperands + 1
\* operands, the omitted arguments being zero placeholders and the last
\* operand the i32 constant of the number of optional arguments supplied.
C3_DirectCallOperands ==
  \A e \in DirectCalls :
    LET site == e.site
        inst == instances[site.callee]
        call == e.expr
        numOperands == SiteOperands(site)
        maxOperands == MaxOperands(inst)
    IN  /\ \E i \in Added(call.label) : moduleFuncs[i].numParams = Len(call.kids)
        /\ IF numOperands = maxOperands
             THEN /\ call.label = site.callee
                  /\ call.kids = CallOperands(site.numArguments, site.hasThis)
                  /\ Len(call.kids) = maxOperands
             ELSE /\ call.label = site.callee \o "|trampoline"
                  /\ Len(call.kids) = maxOperands + 1
                  /\ SubSeq(call.kids, 1, numOperands) =
                       CallOperands(site.numArguments, site.hasThis)
                  /\ \A j \in (numOperands + 1)..maxOperands : call.kids[j].op = "zero"
                  /\ call.kids[maxOperands + 1] =
                       createI32(site.numArguments - inst.signature.requiredParameters)

\* C3 witness: a method call with `this` that supplies one of two optional
\* arguments was emitted as a call of the trampoline.
C3_Witness ==
  \E e \in DirectCalls :
    /\ e.site.hasThis
    /\ e.expr.label = e.site.callee \o "|trampoline"
    /\ instances[e.site.callee].signature.numParameters
         - instances[e.site.callee].signature.requiredParameters = 2
    /\ e.site.numArguments = instances[e.site.callee].signature.requiredParameters + 1

\* what the original is called with after a run with N optional arguments
ExpectedArguments(inst, N) ==
  [j \in 1..MaxOperands(inst) |->
     IF j - 1 < MinOperands(inst) + N
       THEN <<"argument", j - 1>>
       ELSE <<"default", j - 1 - MinOperands(inst)>>]

ExpectedTrace(original, inst, N) ==
  LET k == MaxOperands(inst) - MinOperands(inst)
  IN  [j \in 1..(k - N) |-> Event("init", N + j - 1, None, <<>>)]
        \o << Event("call", 0, original, ExpectedArguments(inst, N)) >>

\* C4: for a function with k optional parameters and N in 0..k, running the
\* trampoline with trailing argument N evaluates the default initializers of
\* exactly the optional parameters N..k-1 in increasing order, leaves the
\* others as the caller passed them and then calls the original once with all
\* operands; any other N traps without calling the original.
C4_TrampolineRun ==
  run.status # "none" =>
    LET inst == instances[run.fn]
        k == MaxOperands(inst) - MinOperands(inst)
    IN  IF run.N \in 0..k
          THEN /\ run.status = "normal"
               /\ run.trace = ExpectedTrace(run.fn, inst, run.N)
          ELSE /\ run.status = "trap"
               /\ \A j \in DOMAIN run.trace : run.trace[j].ev # "call"

\* C4 witness: a trampoline of a method with two optional parameters ran with
\* N = 1 and returned normally.
C4_Witness ==
  /\ run.status = "normal"
  /\ run.N = 1
  /\ MaxOperands(instances[run.fn]) - MinOperands(instances[run.fn]) = 2
  /\ Is(instances[run.fn], "INSTANCE")

\* the calls that checkCallSignature is to refuse
BadCall(signature, site) ==
  \/ site.numArguments < signature.requiredParameters
  \/ site.numArguments > signature.numParameters
  \/ signature.hasRest
  \/ site.hasThis # signature.hasThis

\* C5: compileCallDirect and compileCallIndirect reject a call, with a
\* diagnostic and an unreachable result and without emitting a call, compiling
\* the callee or creating a trampoline, exactly when its argument count is
\* below requiredParameters or above the number of parameters, its signature
\* has a rest parameter or its `this` operand does not match the signature;
\* every other call is accepted and emitted.
C5_RejectedIffBadCall ==
  [][ lastResult'.kind # "none" =>
        LET site == lastResult'.site
            bad == BadCall(instances[site.callee].signature, site)
        IN  IF bad
              THEN /\ lastResult'.expr = createUnreachable
                   /\ errors' = errors + 1
                   /\ calls' = {}
                   /\ instances' = instances
                   /\ moduleFuncs' = moduleFuncs
              ELSE /\ lastResult'.expr.op \in {"call", "call_import", "call_indirect"}
                   /\ [expr |-> lastResult'.expr, site |-> site] \in calls'
                   /\ Len(lastResult'.expr.kids) >= SiteOperands(site)
    ]_vars

\* C5 witness: a direct call with more arguments than the callee has
\* parameters was rejected while the callee was still uncompiled.
C5_Witness ==
  /\ lastResult.kind = "direct"
  /\ lastResult.rejected
  /\ lastResult.site.numArguments > instances[lastResult.site.callee].signature.numParameters
  /\ lastResult.site.hasThis = instances[lastResult.site.callee].signature.hasThis
  /\ ~instances[lastResult.site.callee].signature.hasRest
  /\ ~Is(instances[lastResult.site.callee], "COMPILED")

\* no element of the sequence occurs twice
NoDuplicates(q) == \A i, j \in DOMAIN q : q[i] = q[j] => i = j

\* C11: whatever the import and re-export graph (cycles, a file imported
\* from several sources), compileSource processes the statements of a source
\* at most once: no declaration is added to the module twice, no top-level
\* statement or initializer is appended to the start function twice, and the
\* traversal terminates.
C11_SourcesCompiledOnce ==
  /\ [](NoDuplicates(entered) /\ NoDuplicates(moduleElements)
          /\ NoDuplicates(startFunctionBody))
  /\ <>[]DriverDone

\* C11 witness: the traversal is over; main referred to lib twice (an import
\* and a re-export), lib imported main back, and lib2 was imported by both
\* and by itself.
C11_Witness ==
  /\ DriverDone
  /\ entered = <<"main", "lib", "lib2">>
  /\ \E i, j \in DOMAIN sources["main"] :
       /\ sources["main"][i] = Item("import", "lib", None, FALSE, FALSE)
       /\ sources["main"][j].kind = "export"
       /\ i < j
  /\ \E i \in DOMAIN sources["main"] : sources["main"][i].kind = "import"
                                        /\ sources["main"][i].name = "lib2"
  /\ \E i, j \in DOMAIN sources["lib"] :
       /\ sources["lib"][i].kind = "import" /\ sources["lib"][i].name = "main"
       /\ sources["lib"][j].kind = "import" /\ sources["lib"][j].name = "lib2"
  /\ Len(startFunctionBody) >= 1

\* C12: whenever a global carries the INLINED flag, every expression that
\* reads it (identifier, static property access, callee value of an indirect
\* call through a function-typed global) is lowered to a literal constant and
\* never to a get-global.
C12_InlinedReadsAreConstants ==
  (/\ lastRead.site # None
   /\ "INLINED" \in global.flags
   /\ lastRead.site = "call" => global.hasFunctionType) =>
    (IsConst(lastRead.value) /\ lastRead.value.op # "get_global")

\* the entries of the global in the module
GlobalEntries == { i \in DOMAIN moduleGlobals : moduleGlobals[i].name = global.name }

\* compileGlobal has compiled a non-imported global that has an initializer
CompiledWithInitializer ==
  /\ "COMPILED" \in global.flags
  /\ ~global.typeIsVoid
  /\ ~global.isDeclared
  /\ global.initializer # None

\* the initializer is a constant or, for a const global, precomputes to one
ConstantInitializer ==
  \/ global.initializer = "literal"
  \/ global.isConstant /\ global.initializer = "folds"

\* the second outcome: mutable, zero, one set-global in the start function,
\* a warning exactly for a const global
InitializedInStart ==
  /\ \E i \in GlobalEntries :
       /\ GlobalEntries = {i}
       /\ moduleGlobals[i].mutable
       /\ moduleGlobals[i].init = toNativeZero(0)
  /\ globalStart = << createSetGlobal(global.name, Initializers[global.initializer]) >>
  /\ "INLINED" \notin global.flags
  /\ globalWarnings = (IF global.isConstant THEN 1 ELSE 0)

\* the global is in the module once, with the constant as its initializer
EmittedWithConstant ==
  \E i \in GlobalEntries :
    /\ GlobalEntries = {i}
    /\ moduleGlobals[i].init = createI32(7)
    /\ moduleGlobals[i].mutable = ~global.isConstant

InlinedWithValue ==
  global.isConstant =>
    ("INLINED" \in global.flags /\ global.constantIntegerValue = 7)

\* C13, as stated: for a non-imported global with an initializer compileGlobal
\* takes one of two outcomes: a constant initializer (for a const global also
\* one that precomputes to a constant) emits the global with that constant,
\* appends nothing to the start function and makes a const global INLINED
\* with the value cached; any other initializer emits the global mutable and
\* zero with exactly one set-global in the start function and a warning
\* exactly if the global is const.
C13_Original ==
  CompiledWithInitializer =>
    IF ConstantInitializer
      THEN /\ EmittedWithConstant
           /\ globalStart = <<>>
           /\ globalWarnings = 0
           /\ InlinedWithValue
      ELSE InitializedInStart

\* C13, amended: as above, except that a const global that is not declared
\* at top level (a namespace member or a static field) is only INLINED with
\* its value cached and is not added to the module.
C13_GlobalOutcomes ==
  CompiledWithInitializer =>
    IF ConstantInitializer
      THEN /\ IF global.isConstant /\ ~global.isTopLevel
                THEN GlobalEntries = {}
                ELSE EmittedWithConstant
           /\ globalStart = <<>>
           /\ globalWarnings = 0
           /\ InlinedWithValue
      ELSE InitializedInStart

\* C13 witness: a const global inside a namespace whose initializer folds to
\* a constant was compiled and then read.
C13_Witness ==
  /\ CompiledWithInitializer
  /\ global.isConstant
  /\ ~global.isTopLevel
  /\ global.initializer = "folds"
  /\ lastRead.site = "property"

\* C14: compileEnum assigns member values in declaration order: a member
\* without an initializer gets 0 if it is the first and otherwise its
\* predecessor's value + 1, as an inlined constant when the predecessor is
\* inlined and as a start-function assignment `predecessor + 1` when the
\* predecessor is initialized at run time; once the start function has run,
\* every initializer-less member equals its predecessor's value + 1.
C14_EnumValuesInOrder ==
  enumPc \in {"compiled", "started"} =>
    \A i \in DOMAIN enumDecl.members :
      enumDecl.members[i].kind = "none" =>
        /\ i = 1 =>
             /\ "INLINED" \in enumValues[i].flags
             /\ enumValues[i].constantValue = 0
             /\ enumGlobals[i] = 0
        /\ (i > 1 /\ "INLINED" \in enumValues[i - 1].flags) =>
             /\ "INLINED" \in enumValues[i].flags
             /\ enumValues[i].constantValue = AddOneI32(enumValues[i - 1].constantValue)
             /\ ~enumModule[i].mutable
             /\ enumModule[i].init = createI32(AddOneI32(enumValues[i - 1].constantValue))
        /\ (i > 1 /\ "INLINED" \notin enumValues[i - 1].flags) =>
             /\ "INLINED" \notin enumValues[i].flags
             /\ enumModule[i].mutable
             /\ \E j, k \in DOMAIN enumStart :
                  /\ j < k
                  /\ enumStart[j].label = MemberName(i - 1)
                  /\ enumStart[k] =
                       createSetGlobal(MemberName(i),
                         createBinaryAdd(createGetGlobal(MemberName(i - 1)), createI32(1)))
                  /\ \A l \in DOMAIN enumStart : enumStart[l].label = MemberName(i) => l = k
        /\ (i > 1 /\ enumPc = "started") => enumGlobals[i] = AddOneI32(enumGlobals[i - 1])

\* C14 witness: after the start function ran, an enum whose first member is
\* initialized at run time with the largest i32 is followed by two members
\* without initializer.
C14_Witness ==
  /\ enumPc = "started"
  /\ Len(enumDecl.members) = 3
  /\ enumDecl.members[1] = ValueDeclaration("dynamic", MaxI32)
  /\ enumDecl.members[2].kind = "none"
  /\ enumDecl.members[3].kind = "none"
  /\ enumGlobals[3] = MinI32 + 1

\* C15: whenever a compound assignment or a prefix or postfix ++/-- stores
\* into a variable of small integer type, the value stored is a valid value of
\* that type (wrapped), whatever wrap flag the enclosing expression passed down
C15_StoredValueIsWrapped ==
  (lastStore.kind # "none" /\ localType \in SmallTypes)
    => IsValidValue(localValue, localType)

\* the value of the literal, the negation applied
LiteralValue == IF literal.implicitNegate THEN i64_neg(literal.value) ELSE literal.value

\* C16: an integer literal (also a negated one) is emitted with the contextual
\* type only if its value lies within that type's value range; otherwise it
\* is emitted as i32 if the value fits i32 and as i64 if not
C16_LiteralTypeByRange ==
  (literalExpr.op # "none" /\ literal.contextualType # "void") =>
    IF InValueRange(LiteralValue, literal.contextualType)
    THEN literalExpr.currentType \in {literal.contextualType, "i32"}
    ELSE literalExpr.currentType =
           (IF InValueRange(LiteralValue, "i32") THEN "i32" ELSE "i64")

\* every declaration of a declaration's text, with the namespaces around it
RECURSIVE DeclaredIn(_, _, _)
DeclaredIn(source, path, members) ==
  IF members = <<>> THEN {}
  ELSE {Element(source, path, Head(members))}
       \cup DeclaredIn(source, Append(path, Head(members)), Head(members).members)
       \cup DeclaredIn(source, path, Tail(members))

AllDeclared == UNION { DeclaredIn(v[1], <<>>, <<v[2]>>) : v \in travVisited }

\* a generic function, class or interface is never compiled without type arguments
NoGenericCompiled == \A c \in travCompiled : ~c.declaration.isGeneric

\* with noTreeShaking, every non-generic declaration of every visited source
\* is compiled
ExhaustiveMode ==
  travNoTreeShaking => \A d \in AllDeclared : ~d.declaration.isGeneric => d \in travCompiled

\* C17 as stated: without noTreeShaking a top-level declaration, whether
\* function, class, enum, namespace or variable, is compiled only if it is
\* exported from an entry source; a generic is never compiled; with
\* noTreeShaking every non-generic declaration is compiled
C17_Original ==
  /\ ~travNoTreeShaking =>
       \A c \in travCompiled :
         c.path = <<>> => (isEntry(c.source) /\ c.declaration.exported)
  /\ NoGenericCompiled
  /\ ExhaustiveMode

\* C17, amended: without noTreeShaking a top-level function, class, enum or
\* namespace is compiled exactly if it is exported from an entry source and not
\* generic, and a top-level variable statement is compiled in every case; a
\* generic is never compiled; with noTreeShaking every non-generic declaration
\* of every visited source is compiled
C17_TreeShaking ==
  /\ ~travNoTreeShaking =>
       \A v \in travVisited :
         Element(v[1], <<>>, v[2]) \in travCompiled
           <=> \/ v[2].kind = "variable"
               \/ (isEntry(v[1]) /\ v[2].exported /\ ~v[2].isGeneric)
  /\ NoGenericCompiled
  /\ ExhaustiveMode

\* C17: tree shaking is on, the imported source declared a variable without
\* export, which was compiled, and an exported function, which was not
C17_Witness ==
  /\ ~travNoTreeShaking
  /\ Element("lib", <<>>, Declaration("variable", FALSE, FALSE, <<>>)) \in travCompiled
  /\ <<"lib", Declaration("function", TRUE, FALSE, <<>>)>> \in travVisited
  /\ Element("lib", <<>>, Declaration("function", TRUE, FALSE, <<>>)) \notin travCompiled

\* C18: for every integer source type, small integer target type and valid
\* source value, the converted expression evaluates to a valid value of the
\* target type that equals the source value modulo 2^targetBits
C18_ConversionToSmallIsValid ==
  (converted.currentType \in SmallTypes) =>
    /\ IsValidValue(I32Of(converted.value), conversion.toType)
    /\ I32Of(converted.value) % Pow2(TypeSize(conversion.toType))
         = conversion.value.rem % Pow2(TypeSize(conversion.toType))

\* the value assigned: that of the value expression, evaluated first
AssignedValue == Evaluate(assignValue, Machine(assignLocals)).value

\* C19: in a field assignment whose value is consumed (tee), the value stored
\* to the field and the value the expression yields both equal the assigned
\* value, whatever temps the target and the value expression used
C19_FieldTeeYieldsAssignedValue ==
  (assignPc = "ran" /\ assignment.element = "field" /\ assignment.tee) =>
    /\ Len(assignRun.stores) = 1
    /\ assignRun.stores[1][2] = AssignedValue
    /\ assignRun.value = AssignedValue

\* the receiver the target expression evaluates to
Receiver == Evaluate(compileTarget(NewFunction, assignment.target).expr,
                     Machine(assignLocals)).value

CallsOf(name) == { n \in DOMAIN assignRun.calls : assignRun.calls[n][1] = name }

\* C20: in an instance property assignment whose value is consumed (tee), the
\* getter is called on the receiver the setter was called on, the receiver
\* expression is evaluated exactly once, and the temp carrying the receiver
\* has the receiver's native type
C20_PropertyTeeSameReceiver ==
  (assignPc = "ran" /\ assignment.element = "property" /\ assignment.tee) =>
    /\ \A s \in CallsOf("set"), g \in CallsOf("get") :
         assignRun.calls[g][2] = assignRun.calls[s][2]
    /\ Cardinality(CallsOf("set")) = 1 /\ Cardinality(CallsOf("get")) = 1
    /\ assignment.target = "element" => Cardinality(CallsOf("[]")) = 1
    /\ assignFn.locals[assignTemp + 1] = "i32"

\* the call of the indexed setter and the call of the indexed getter that
\* follows it, the last call the expression makes
IndexedSet == assignRun.calls[CHOOSE n \in CallsOf("[]=") : TRUE]

IndexedGet == assignRun.calls[Len(assignRun.calls)]

\* the number of times the expression as written increments the local i
IncrementsOfI ==
  (IF assignment.target = "element" THEN 1 ELSE 0)
    + (IF assignment.index = "postfix" THEN 1 ELSE 0)

\* C21: in an indexed assignment whose value is consumed (tee), the [] getter
\* receives the target and the index the []= setter received, the target temp
\* and the index temp are distinct slots, and the target and the index
\* expressions are evaluated exactly once
C21_IndexedTeeSameOperands ==
  (assignPc = "ran" /\ assignment.element = "indexed" /\ assignment.tee) =>
    /\ Cardinality(CallsOf("[]=")) = 1
    /\ IndexedGet[1] = "[]"
    /\ IndexedGet[2] = IndexedSet[2]
    /\ IndexedGet[3] = IndexedSet[3]
    /\ assignExpr.kids[1].kids[1].n # assignExpr.kids[1].kids[2].n
    /\ Cardinality(CallsOf("[]")) = 1 + (IF assignment.target = "element" THEN 1 ELSE 0)
    /\ assignRun.locals[2] = assignLocals[2] + IncrementsOfI

\* the source-level evaluation of `left op right`: left once; right, on the
\* state left produced, only if left is truthy (&&) or falsy (||); the result
\* is right's value in that case and the value of left otherwise
LogicalAfterLeft == Evaluate(logicLeft, Machine(logicLocals))

RightIsEvaluated ==
  IF logical.operator = "&&" THEN LogicalAfterLeft.value # 0 ELSE LogicalAfterLeft.value = 0

LogicalExpected ==
  IF RightIsEvaluated THEN Evaluate(logicRight, LogicalAfterLeft) ELSE LogicalAfterLeft

\* the locals of the source, temps excluded
SourceLocals(m) == SubSeq(m.locals, 1, Len(LogicFunction.locals))

\* C22: for `left && right` and `left || right`, cloned or tee'd, the side
\* effects of left occur once, right is evaluated only when left is truthy
\* (&&) or falsy (||), and the result is right's value in that case and the
\* preserved value of left otherwise
C22_LogicalLowering ==
  logicPc = "ran" =>
    /\ logicRun.value = LogicalExpected.value
    /\ logicRun.calls = LogicalExpected.calls
    /\ SourceLocals(logicRun) = SourceLocals(LogicalExpected)

\* C22 witness: left is tee'd to the temp that the lowering of right uses as
\* well, right is evaluated and its side effect has happened
C22_Witness ==
  /\ logicPc = "ran"
  /\ logical.left = "postfix" /\ logical.right = "postfix"
  /\ logicRight.kids[1].op = "set_local" /\ logicRight.kids[1].n = logicTemp
  /\ RightIsEvaluated
  /\ logicRun.locals[RightLocal(logical.type) + 1]
       = logicLocals[RightLocal(logical.type) + 1] + 1

\* C22 witness: left is tee'd, right is not evaluated and the expression
\* yields the value the temp preserved
C22_WitnessPreserved ==
  /\ logicPc = "ran"
  /\ logical.left = "call" /\ logical.right = "postfix"
  /\ logicTemp >= 0
  /\ ~RightIsEvaluated
  /\ logicRun.value = logicLocals[LeftLocal(logical.type) + 1]
  /\ logicRun.value # 0

\* The lowering of the break and continue statements of a statement,
\* followed through the statement and the expression it was lowered to:
\* enclosing is the set of labels of the blocks and loops of the expression
\* that enclose the position, brk and cont the break label and the continue
\* label of the nearest enclosing loop or switch (NoLabel: none), id the
\* break context the next loop or switch gets.  The result is [ok, id,
\* errors]: whether every break and continue is lowered as required, the next
\* break context, and the number of diagnostics required.
RECURSIVE Lowered(_, _, _, _, _, _), LoweredAll(_, _, _, _, _, _),
          LoweredCases(_, _, _, _, _, _, _)

LoweredBranch(statement, expr, enclosing, target) ==
  IF statement.d = 1 \/ target = NoLabel
  THEN [ok |-> expr.op = "unreachable", errors |-> 1]
  ELSE [ok |-> expr.op = "br" /\ expr.kids = <<>> /\ expr.label = target
                 /\ target \in enclosing,
        errors |-> 0]

\* the statements of a block or of a case, lowered to exprs
LoweredAll(statements, exprs, enclosing, brk, cont, id) ==
  IF statements = <<>> THEN [ok |-> exprs = <<>>, id |-> id, errors |-> 0]
  ELSE IF exprs = <<>> THEN [ok |-> FALSE, id |-> id, errors |-> 0]
  ELSE LET first == Lowered(Head(statements), Head(exprs), enclosing, brk, cont, id)
           rest == LoweredAll(Tail(statements), Tail(exprs), enclosing, brk, cont, first.id)
       IN  [ok |-> first.ok /\ rest.ok, id |-> rest.id, errors |-> first.errors + rest.errors]

\* the blocks of the cases, from the last case (i = Len(cases)) inwards:
\* block is the block whose statements are those of case i, inner the labels
\* of the blocks around it
LoweredCases(cases, i, block, enclosing, cont, context, id) ==
  IF i = 0 THEN [ok |-> block.op = "block" /\ block.label = CaseLabel(0, context),
                 id |-> id, errors |-> 0]
  ELSE IF block.op # "block" \/ block.kids = <<>>
  THEN [ok |-> FALSE, id |-> id, errors |-> 0]
  ELSE LET inner == LoweredCases(cases, i - 1, block.kids[1], enclosing \cup {block.label},
                                 cont, context, id)
           here == LoweredAll(cases[i].s, Tail(block.kids), enclosing \cup {block.label},
                              BreakLabel(context), cont, inner.id)
       IN  [ok |-> inner.ok /\ here.ok, id |-> here.id, errors |-> inner.errors + here.errors]

\* a loop: the block labelled with the break label, the loop labelled with
\* the continue label in it, and the body at the place given
LoweredLoop(statement, expr, loop, body, enclosing, id) ==
  LET r == Lowered(statement.s[1], body, enclosing \cup {expr.label, loop.label},
                   BreakLabel(id), ContinueLabel(id), id + 1)
  IN  [ok |-> /\ expr.op = "block" /\ expr.label = BreakLabel(id)
              /\ loop.op = "loop" /\ loop.label = ContinueLabel(id)
              /\ r.ok,
       id |-> r.id, errors |-> r.errors]

Lowered(statement, expr, enclosing, brk, cont, id) ==
  CASE statement.k = "break" ->
         LET r == LoweredBranch(statement, expr, enclosing, brk)
         IN  [ok |-> r.ok, id |-> id, errors |-> r.errors]
    [] statement.k = "continue" ->
         LET r == LoweredBranch(statement, expr, enclosing, cont)
         IN  [ok |-> r.ok, id |-> id, errors |-> r.errors]
    [] statement.k = "block" ->
         IF expr.op # "block" THEN [ok |-> FALSE, id |-> id, errors |-> 0]
         ELSE LoweredAll(statement.s, expr.kids, enclosing, brk, cont, id)
    [] statement.k = "if" ->
         IF expr.op # "if" THEN [ok |-> FALSE, id |-> id, errors |-> 0]
         ELSE LoweredAll(statement.s, SubSeq(expr.kids, 2, 1 + Len(statement.s)),
                         enclosing, brk, cont, id)
    [] statement.k = "do" ->
         LoweredLoop(statement, expr, expr.kids[1], expr.kids[1].kids[1].kids[1],
                     enclosing, id)
    [] statement.k = "while" ->
         LoweredLoop(statement, expr, expr.kids[1], expr.kids[1].kids[1].kids[2].kids[1],
                     enclosing, id)
    [] statement.k = "for" ->
         LET inner == IF expr.label = NoLabel THEN expr.kids[1] ELSE expr
         IN  LoweredLoop(statement, inner, inner.kids[2],
                         inner.kids[2].kids[1].kids[1].kids[2].kids[1], enclosing, id)
    [] statement.k = "switch" ->
         LoweredCases(statement.s, Len(statement.s), expr, enclosing, cont, id, id + 1)
    [] statement.k = "variable" ->
         [ok |-> TRUE, id |-> id, errors |-> statement.d]
    [] OTHER -> [ok |-> TRUE, id |-> id, errors |-> 0]

\* C23: for any nesting of do, while, for, switch, if and block statements,
\* an unlabeled break is lowered to a branch to the break label of the
\* nearest enclosing loop or switch and an unlabeled continue to one to the
\* continue label of the nearest enclosing loop, the label is that of a
\* block or loop around the branch, and any other break or continue is
\* lowered to unreachable with one diagnostic each
C23_BranchesTargetEnclosing ==
  fnPc = "compiled" =>
    LET r == Lowered(fnBody, fnFlow.expr, {}, NoLabel, NoLabel, 0)
    IN  r.ok /\ fnFlow.errors = r.errors

\* C23 witness: a continue in a switch case inside a loop, lowered to a
\* branch to the continue label of the loop
C23_Witness ==
  /\ fnPc = "compiled"
  /\ fnBody = Node("block", << Node("while", <<
                 Node("switch", << Node("case", << Node("continue", <<>>, 0) >>, 0) >>, 0)
               >>, 0) >>, 0)
  /\ fnFlow.errors = 0

\* the labels of the frames of a flow
FrameLabels(st) ==
  [i \in DOMAIN st.flow |-> <<st.flow[i].breakLabel, st.flow[i].continueLabel>>]

\* C24: compiling a statement, also one that reports an error, leaves the
\* flow at the frame it was at, with the break and continue labels it had,
\* and leaves every break context it entered
C24_FlowRestored ==
  fnPc = "statement" =>
    /\ FrameLabels(fnFlow) = FrameLabels(fnBefore)
    /\ fnFlow.breakStack = fnBefore.breakStack

\* C24 witness: a statement with a loop in it that reported an error was
\* compiled inside a switch case of a loop
C24_Witness ==
  /\ fnPc = "statement"
  /\ fnBefore = SwitchCaseFlow
  /\ fnFlow.errors > 0
  /\ fnFlow.nextBreakId > fnBefore.nextBreakId

\* C25: after compileEnum returns, currentEnum is what it was before the
\* call, so that every value of an enum, also one that follows a value whose
\* initializer made the compiler compile another enum, is compiled with
\* currentEnum being its enum; currentEnum is null outside any compilation
C25_CurrentEnumRestored ==
  /\ \A n \in DOMAIN ctxCalls : ctxCalls[n].after = ctxCalls[n].before
  /\ \A n \in DOMAIN ctxValues : ctxValues[n].currentEnum = ctxValues[n].enum
  /\ currentEnum = None

\* the constant that converting the value of a constant of type T to the
\* wider type C yields: the value extended by the signedness of T, as a
\* value of C
ExtendedTo(value, elementType, contextualType) ==
  IF IsLong(contextualType)
  THEN [op |-> "i64.const",
        value |-> IF IsSignedInteger(elementType) THEN ExtendI32(value) ELSE ExtendU32(value)]
  ELSE [op |-> "i32.const",
        value |-> IF contextualType \in SmallTypes
                  THEN makeSmallIntegerWrap(value, contextualType) ELSE value]

\* C26: an inlined integer constant of type T read under a wider integer
\* contextual type C with retainType false yields the constant that
\* converting its value from T to C yields (sign-extension for signed T,
\* zero-extension for unsigned T) with currentType = C; in every other case
\* it yields the value, normalized to T, with currentType = T
C26_InlineConstantValue ==
  inlinePc = "read" =>
    IF Precomputes(inlineElement.type, inlineRead.contextualType, inlineRead.retainType)
    THEN LET expected == ExtendedTo(inlineElement.value, inlineElement.type,
                                    inlineRead.contextualType)
         IN  /\ inlineResult.currentType = inlineRead.contextualType
             /\ inlineResult.op = expected.op
             /\ inlineResult.value = expected.value
    ELSE /\ inlineResult.currentType = inlineElement.type
         /\ inlineResult.value = inlineElement.value

RECURSIVE LocalsOf(_)
\* the indexes of the locals an expression reads or writes
LocalsOf(expr) ==
  (IF expr.op \in {"get_local", "tee_local", "set_local"} THEN {expr.n} ELSE {})
    \cup UNION { LocalsOf(expr.kids[i]) : i \in DOMAIN expr.kids }

\* C27: every local, temporaries included, that an expression of the start
\* function body refers to is a local of the start function: each entry of
\* startFunctionBody was compiled with currentFunction = the start function
\* and its locals are among those the start function is added with, also
\* when the global or enum was first compiled from inside the body of f
C27_StartLocalsBelongToStart ==
  startPc = "done" =>
    \A i \in DOMAIN startCompiler.body :
      /\ startCompiler.body[i].function = "start"
      /\ \A index \in LocalsOf(startCompiler.body[i].expr) : index < startLocals

\* C28: compileGlobal is stable under repetition: a call that follows an
\* earlier call returns what the earlier call returned and emits nothing new
\* (no global of the module, no statement of the start function, no
\* warning); a global whose compilation failed is reported as failed again
C28_CompileGlobalStable ==
  [][(globalResult # <<>> /\ globalResult' # <<>>) =>
       /\ globalResult' = globalResult
       /\ moduleGlobals' = moduleGlobals
       /\ globalStart' = globalStart
       /\ globalWarnings' = globalWarnings]_vars

\* the declarator has a type: annotated with a type that resolves, or
\* inferred from an initializer that has a value
HasType(declaration) ==
  \/ declaration.type = "i32"
  \/ declaration.type = "none" /\ declaration.initializer \in {"literal", "sum", "call"}

\* the declarator is a constant whose initializer folds to a constant
Folds(statement, declaration) ==
  /\ statement.kind = "const"
  /\ declaration.initializer \in {"literal", "sum"}

\* the expression is, or is a block that contains, an assignment to the slot
AssignsSlot(expr, slot) ==
  IF expr.op = "block"
  THEN \E k \in DOMAIN expr.kids : expr.kids[k].op = "set_local" /\ expr.kids[k].n = slot
  ELSE expr.op = "set_local" /\ expr.n = slot

\* C29: compileVariableStatement handles every declarator of a local
\* variable statement: a declarator that is not folded to a constant has a
\* slot, and its assignment is in the expression returned if it has an
\* initializer; a const declarator whose initializer folds is a virtual local
\* (index -1) of the scoped locals; whatever its position relative to a
\* folded const declarator
C29_EveryDeclaratorHandled ==
  varPc = "compiled" =>
    \A i \in DOMAIN varStatement.declarations :
      LET declaration == varStatement.declarations[i]
      IN  HasType(declaration) =>
            IF Folds(varStatement, declaration)
            THEN <<declaration.name, -1>> \in varFunction.scopedLocals
            ELSE /\ SlotOf(varFunction, declaration.name) >= 0
                 /\ declaration.initializer # "none" =>
                      AssignsSlot(varResult.expr, SlotOf(varFunction, declaration.name))

\* the value of an operand as a valid value of the type: the sum is wrapped
OperandValue(operand, x, y, type) ==
  IF operand = "local" THEN x ELSE makeSmallIntegerWrap(AddI32(x, y), type)

\* the quotient or remainder of two valid values of a small integer type
ExpectedDivision(operator, left, right, type) ==
  LET quotient == IF IsSigned(type) THEN DivI32(left, right) ELSE DivU32(left, right)
  IN  IF operator \in {"/", "/="}
      THEN IF quotient.trap THEN Trap
           ELSE Value(makeSmallIntegerWrap(quotient.value, type))
      ELSE IF IsSigned(type) THEN RemI32(left, right) ELSE RemU32(left, right)

\* C30: `/`, `%`, `/=` and `%=` on operands of a small integer type compute
\* the quotient or the remainder of the two operand values taken as valid
\* values of the type: both operands are wrapped before the division, also
\* an operand that is an arithmetic result such as b + c; a compound
\* assignment stores that value
C30_DivisionOfWrappedOperands ==
  (divPc = "compiled" /\ divType \in SmallTypes) =>
    LET expected ==
          ExpectedDivision(
            divExpression.operator,
            OperandValue(divExpression.left, divLocals.a, divLocals.b, divType),
            OperandValue(divExpression.right, divLocals.c, divLocals.b, divType),
            divType)
    IN  /\ divResult = expected
        /\ divAfter = assignCompound(divExpression, divLocals, expected)

\* the end of a segment: its offset plus its length
SegmentEnd(segment) == i64_add(segment.offset, Len(segment.buffer))

\* the segments that hold the given bytes
SegmentsHolding(buffer) ==
  { i \in DOMAIN memorySegments : memorySegments[i].buffer = buffer }

\* the offset as compileStaticString returns it on the target
ReturnedOffset(offset) ==
  IF options.target = "WASM64" THEN offset ELSE i64_low(offset)

\* C6: after any sequence of compileStaticString calls the segment table
\* holds exactly one segment per distinct string value, 4 + 2 * length bytes
\* long; calls with the same value yield the same offset and calls with
\* different values different offsets.  (A compilation that stopped on a
\* failed assertion has returned nothing for its last string.)
C6_OneSegmentPerString ==
  /\ memPc # "aborted" =>
       \A v \in Strings :
         Cardinality(SegmentsHolding(stringBuffer(v))) =
           (IF \E i \in DOMAIN stringResults : stringResults[i].value = v THEN 1 ELSE 0)
  /\ \A i \in DOMAIN stringResults :
       LET v == stringResults[i].value
       IN  \E j \in SegmentsHolding(stringBuffer(v)) :
             /\ Len(memorySegments[j].buffer) = 4 + 2 * Len(v)
             /\ stringResults[i].offset = ReturnedOffset(memorySegments[j].offset)
  /\ \A i, j \in DOMAIN stringResults :
       (stringResults[i].value = stringResults[j].value)
         <=> (stringResults[i].offset = stringResults[j].offset)

\* C6 witness: the same string was compiled twice with another string in
\* between.
C6_Witness ==
  /\ Len(stringResults) = 3
  /\ stringResults[1].value = stringResults[3].value
  /\ stringResults[1].value # stringResults[2].value
  /\ Len(stringResults[1].value) = Len(stringResults[2].value)
  /\ Len(stringResults[1].value) = MaxStringLength

\* C7: after any sequence of addMemorySegment calls, for any memoryBase,
\* every segment offset is a multiple of its call's alignment, is at least
\* the pointer byte size, and is at least the previous segment's offset plus
\* its length: offsets follow call order and no two segments overlap.
C7_SegmentsAlignedAndDisjoint ==
  /\ Len(segmentAlignments) = Len(memorySegments)
  /\ \A i \in DOMAIN memorySegments :
       /\ memorySegments[i].offset.rem % segmentAlignments[i] = 0
       /\ i64_le(i64_new(UsizeByteSize(options.target)), memorySegments[i].offset)
       /\ i64_le(SegmentEnd(memorySegments[i]), memoryOffset)
  /\ \A i, j \in DOMAIN memorySegments :
       i < j => i64_le(SegmentEnd(memorySegments[i]), memorySegments[j].offset)

\* C7 witness: three segments, the second moved up by its alignment, laid out
\* from a memoryBase that is no multiple of the pointer size.
C7_Witness ==
  /\ Len(memorySegments) = 3
  /\ options.memoryBase = i64_new(5)
  /\ segmentAlignments[2] = 16
  /\ Len(memorySegments[1].buffer) > 0
  /\ SegmentEnd(memorySegments[1]) # memorySegments[2].offset
  /\ Len(memorySegments[2].buffer) > 0

\* ceil(value / 65536)
PagesOf(value) == value.page + (IF value.rem > 0 THEN 1 ELSE 0)

\* C8: with noMemory false, the HEAP_BASE global that compile() emits is
\* immutable, a multiple of the pointer byte size and at least offset + length
\* of every static segment; the initial memory size is ceil(HEAP_BASE / 65536)
\* pages and does not exceed the maximum passed with it.
C8_HeapBaseAndPages ==
  (memPc = "compiled" /\ ~options.noMemory) =>
    /\ ~heapBase.mutable
    /\ heapBase.value.rem % UsizeByteSize(options.target) = 0
    /\ \A i \in DOMAIN memorySegments :
         i64_le(SegmentEnd(memorySegments[i]), heapBase.value)
    /\ memory.initial = PagesOf(heapBase.value)
    /\ memory.initial <= memory.maximum

\* the functions in the order of their first request
RECURSIVE FirstRequests(_)
FirstRequests(requests) ==
  IF requests = <<>> THEN <<>>
  ELSE LET before == FirstRequests(SubSeq(requests, 1, Len(requests) - 1))
           func == requests[Len(requests)].func
       IN  IF \E i \in DOMAIN before : before[i] = func THEN before
           ELSE Append(before, func)

\* C9: after any sequence of ensureFunctionTableEntry calls the table holds
\* each function at most once, its indices are 0..n-1 in the order of first
\* request, functionTable[f.functionTableIndex] = f for every entered f, and a
\* repeated call returns f's original index without growing the table.
C9_FunctionTableCompact ==
  /\ \A i, j \in DOMAIN functionTable : functionTable[i] = functionTable[j] => i = j
  /\ functionTable = FirstRequests(tableRequests)
  /\ \A f \in Functions :
       IF \E i \in DOMAIN functionTable : functionTable[i] = f
         THEN /\ functionTableIndex[f] \in 0..(Len(functionTable) - 1)
              /\ functionTable[functionTableIndex[f] + 1] = f
         ELSE functionTableIndex[f] = NoTableIndex
  /\ \A i \in DOMAIN tableRequests :
       tableRequests[i].index = functionTableIndex[tableRequests[i].func]

\* C9 witness: the function entered first was requested again after another
\* function had been entered.
C9_Witness ==
  /\ Len(tableRequests) >= 3
  /\ tableRequests[1].func = tableRequests[3].func
  /\ tableRequests[1].func # tableRequests[2].func
  /\ Len(functionTable) = 2

\* C10: however often a function instance is referenced, recursive
\* self-references from its own body and repeated calls omitting optional
\* arguments included, the module holds the function (or its import) exactly
\* once and at most one trampoline per original; a function is in the module
\* exactly when its instance is flagged COMPILED.
C10_AddedExactlyOnce ==
  /\ \A i, j \in DOMAIN moduleFuncs :
       moduleFuncs[i].name = moduleFuncs[j].name => i = j
  /\ \A n \in DOMAIN instances :
       Cardinality(Added(n)) = (IF Is(instances[n], "COMPILED") THEN 1 ELSE 0)
  /\ \A n \in Originals :
       /\ Cardinality(Added(n \o "|trampoline")) <= 1
       /\ (instances[n].trampoline # None) <=> (Added(n \o "|trampoline") # {})
       /\ Is(instances[n], "COMPILED") =>
            (Is(instances[n], "IMPORTED") <=> ~instances[n].hasBody)

\* C10 witness: f, whose body calls f itself omitting optional arguments, was
\* compiled earlier together with its trampoline, and the latest call of f,
\* again omitting an optional argument, emitted nothing but its own call.
C10_Witness ==
  /\ instances["f"].body # <<>>
  /\ instances["f"].body[1].callee = "f"
  /\ instances["f"].body[1].numArguments < instances["f"].signature.numParameters
  /\ instances["f"].body[1].numArguments >= instances["f"].signature.requiredParameters
  /\ Added("f") # {}
  /\ Added("f|trampoline") # {}
  /\ lastResult.kind = "direct"
  /\ lastResult.site.callee = "f"
  /\ lastResult.site # instances["f"].body[1]
  /\ lastResult.site.numArguments < instances["f"].signature.numParameters
  /\ calls = {[expr |-> lastResult.expr, site |-> lastResult.site]}

============================================================================
